---------------------------- MODULE Spec2Model ----------------------------
(***************************************************************************)
(* Verification model of the Veeam container recovery engine.              *)
(*                                                                         *)
(* Three parts of the program are modelled, each with its own              *)
(* specification over the same variables:                                  *)
(*   ScanSpec / FairScan  DblBufScanner: reader and scanner threads        *)
(*   MetaSpec             CMeta::get_page, CMeta::get_page_stack,          *)
(*                        CPageStack::finalize                             *)
(*   ExtractSpec          CMeta::get_file_blocks and                       *)
(*                        ExtractContext::process_file                     *)
(***************************************************************************)
EXTENDS Integers, Sequences, FiniteSets, TLC

(***************************************************************************)
(* Bounds of the model.                                                    *)
(***************************************************************************)
\* largest container size (in bytes) the scanner model reads
MaxFileSize == 4
\* m_block_size passed to the DblBufScanner constructor (bytes per buffer)
m_block_size == 2
\* largest m_start passed to the DblBufScanner constructor
MaxStart == 1
\* metadata pages 0..MaxPage of bank 0 hold index pages
MaxPage == 2
\* largest attribs.nBlocks of a logical file
MaxNBlocks == 2
\* longest block list whose blocks process_file is followed through; also the most
\* block descriptors get_file_blocks reads from the metadata pages
MaxBlocks == 2
\* most sparse table descriptors in the metadata of one file
MaxSparse == 1
\* largest allocated_banks of a slot
MaxAlloc == 2
\* most SDirItemRec records before the first zeroed record of a directory page
MaxEntries == 3
\* cap on the number of nested read_dir and process_dir_page calls
MaxDepth == 10
\* number of BlockDescriptor records in the pages of the datastore
MaxRecords == 3
\* number of page positions of the scan at which a slot or a bank lies
MaxFinds == 3
\* lru_set: the largest capacity and the number of calls on one set
MaxCapacity == 3
MaxOps == 5
\* BitFileMappedArray: the largest number of bits and the number of calls on one array
MaxBits == 17
MaxBitOps == 1

(***************************************************************************)
(* Program constants.                                                      *)
(***************************************************************************)
PAGE_SIZE == 4096
MAX_BANKS == 65440
V13_MAX_PAGES == 1024
BLOCK_SIZE == 1048576
\* SMetaTableDescriptor::MAX_BLOCKS
MAX_BLOCKS == 1088
\* FileHeader.hpp
MAX_SLOTS == 2
\* sizeof(CSlot) (packed, aligned(8)) and sizeof(CSlot::BankInfo)
SizeofCSlot == 128
SizeofBankInfo == 16
\* EBlockLocation and ECompType
BL_BLOCK_IN_BLOB == 4
CT_NONE == 255
CT_RLE == 2
CT_LZ4 == 7
CT_ZSTD9 == 9
\* EFileType
FT_SUBFOLDER == 1
FT_EXT_FIB == 2
FT_INT_FIB == 3
FT_PATCH == 4
FT_INCREMENT == 5

VARIABLES
    \* ---- DblBufScanner ----
    size,          \* m_reader.size()
    m_start,       \* constructor argument start
    g_force,       \* the global force switch
    rd_pc,         \* position of read_thr_proc
    sc_pc,         \* position of scan_thr_proc
    main_pc,       \* position of scan()
    mutex,         \* owner of m_buffer_mutex
    m_buf_ready,   \* m_buf_ready[2]
    m_offsets,     \* m_offsets[2]
    m_buf_len,     \* m_buffers[i].size()
    m_done,        \* std::atomic<bool> m_done
    rd_idx,        \* buf_idx of read_thr_proc
    sc_idx,        \* buf_idx of scan_thr_proc
    pos,           \* pos of read_thr_proc
    filled,        \* history: offsets of the buffers the reader published
    processed,     \* history: offsets handed to process_buf
    \* ---- CMeta page cache ----
    m_banks,       \* m_banks: the size in bytes of each loaded bank buffer
    bank_data,     \* contents of the pages read so far (fixed at the first read)
    gp_ppi,        \* argument of the last direct get_page call
    gp_result,     \* its return value
    gp_dst_len,    \* dst.size() after it
    gp_copy_end,   \* end offset of the bytes its memcpy read from the bank (0: no copy)
    gps_pc,        \* position of get_page_stack
    ppi0,          \* its argument
    gps_ppi,       \* its local ppi
    first_page,    \* its local first_page
    visited_index_pages,
    m_pageTables,  \* CPageStack::m_pageTables, one element per added page
    stack_pages,   \* history: the ids of the pages added to the stack
    m_pageIds,     \* CPageStack::m_pageIds
    m_finalized,   \* CPageStack::m_finalized
    gps_iters,     \* history: iterations of the while loop of get_page_stack
    \* ---- ExtractContext::process_file ----
    ex_pc,         \* position of process_file
    vFile,         \* the logical file: type, attribs.nBlocks, attribs.filesize
    test_only,     \* ExtractContext::test_only (no Writer is constructed)
    vAllB,         \* the block list (inside get_file_blocks: its local blocks)
    gfb,           \* get_file_blocks: descriptors read, sparse descriptors seen,
                   \* nBlocks of the table descriptor being walked, its nBlocks2
    blk_i,         \* loop index i of the per-block loop
    fti,           \* FileTestInfo counters
    remaining_size,
    actual_written,
    tell,          \* position of the Writer (0 without a Writer)
    written_at,    \* history: for each block handed to the Writer, its vib_offset and
                   \* size and the Writer position it was written at
    missing_keyset, \* history: number of blocks skipped for a missing keyset
    lz4_written,   \* history: the outcomes (lz4res ok, crc ok) of the checks of the LZ4
                   \* blocks whose decompressed bytes went to the Writer
    sum_len,       \* history: sum of the decoded lengths of the blocks written
    plain,         \* history: every block so far was written, with remaining_size > 0
                   \* before it, and the Writer was never repositioned
    \* ---- VBKCommand::run, MDCommand::create_meta, CMeta::CMeta ----
    cmd,           \* the command of the session: "vbk" (a container) or "md" (a slot file)
    ses_pc,        \* position of the session
    hdr,           \* the container's FileHeader: valid(), slot_fmt
    slots,         \* the CSlot records at the two slot offsets of the container
    opt_slot,      \* the --slot option (-1: not used)
    slot_idx,      \* slot_idx of the loop of VBKCommand::run
    slots_map,     \* slots_map: slot offset -> bitmap of valid banks
    best_slot_offset,
    exit_code,     \* value run() returned (-1: has not returned)
    message,       \* the critical message logged
    m_meta_offset, \* MDCommand::m_meta_offset (-1: MDCommand has not run)
    m_ignore_errors, \* CMeta::m_ignore_errors, constructed from g_force
    password_given, \* --password is not empty
    cm_slot,       \* the CSlot that CMeta::import_slot parsed
    banks_loaded,  \* import_slot resized m_banks and read the banks of cm_slot
    keysets_result, \* what load_keysets_from_bank ended with
    died_in,       \* history: how the constructor was left by an exception
    meta_state,    \* state of the metadata after construction
    \* ---- CMeta::for_each_file ----
    fe_pc,         \* position of for_each_file
    dir_pages,     \* the SDirItemRec records of each page of the bank, up to the
                   \* first zeroed record
    dir_stacks,    \* the page ids get_page_stack returns for a directory location
    frames,        \* the active calls of read_dir and process_dir_page, innermost last
    visited_pages, \* ppi_set_t visited_pages of for_each_file
    orphan_next,   \* page_id of the enumeration of for_each_page
    reported,      \* history: the records (page, position) passed to the callback
    parsed,        \* history: number of calls of process_dir_page for each page
    \* ---- CMeta::read_datastore ----
    ds_pc,         \* position of read_datastore
    ds_ignore_errors, \* m_ignore_errors of the CMeta read_datastore runs on
    bd_records,    \* the BlockDescriptor records of the pages of the datastore, in order
    bd_i,          \* number of records read_datastore has gone through
    bds,           \* BlockDescriptors bds: the records inserted, by digest
    \* ---- ScannerV2 ----
    sv_pc,         \* position of the scan: process_buf calls, then finish
    finds,         \* number of page positions at which a slot or a bank was met
    m_slots_map,   \* the offsets of the slots recorded by check_slot
    m_is_encrypted, \* an encrypted bank was met
    m_seen_bank_ids, \* the (crc, size) fingerprints of the banks met
    m_seen_slot_fingerprints, \* the fingerprints of the slots met
    m_failed_guess, \* inference of bank ids was abandoned
    m_current_bank_id, \* the lowest id the next bank may be given
    m_seen_bank_crcs, \* the crcs of the banks that were given an id
    m_bank_id_to_bank, \* BankInfo (crc, offset, size) by inferred id
    saved_banks,   \* history: the calls of save_bank, as (fingerprint, position)
    saved_slots,   \* history: the slots saved by check_slot, as (fingerprint, position)
    guessed,       \* history: the results of guess_bank_id that were compared with
                   \* m_current_bank_id, in order, with the position of the bank
    duplicates,    \* history: the banks and slots skipped as already seen, as
                   \* (position, "bank" or "slot")
    synth,         \* the slot file written by finish, NoSynth when none was
    \* ---- lru_set ----
    _capacity,     \* lru_set::_capacity
    _list,         \* lru_set::_list, front (first) = most recently used
    _map,          \* the keys of lru_set::_map
    lru_ops,       \* number of calls made on the set
    lru_op,        \* history: the last call, its key and what contains returned
    \* ---- BitFileMappedArray ----
    m_bit_size,    \* BitFileMappedArray::m_bit_size
    m_mmap,        \* the bytes of the mapped file; byte k is m_mmap[k + 1]
    bit_ops,       \* number of calls made on the array
    bit_op         \* history: the last call and whether it threw std::out_of_range

scanVars == <<size, m_start, g_force, rd_pc, sc_pc, main_pc, mutex, m_buf_ready,
              m_offsets, m_buf_len, m_done, rd_idx, sc_idx, pos, filled, processed>>

metaVars == <<m_banks, bank_data, gp_ppi, gp_result, gp_dst_len, gp_copy_end, gps_pc, ppi0,
              gps_ppi, first_page, visited_index_pages, m_pageTables, stack_pages,
              m_pageIds, m_finalized, gps_iters>>

exVars == <<ex_pc, vFile, test_only, vAllB, gfb, blk_i, fti, remaining_size,
            actual_written, tell, lz4_written, sum_len, plain, written_at,
            missing_keyset>>

slotVars == <<cmd, ses_pc, hdr, slots, opt_slot, slot_idx, slots_map, best_slot_offset,
              exit_code, message, m_meta_offset, m_ignore_errors, password_given,
              cm_slot, banks_loaded, keysets_result, died_in, meta_state>>
dirVars == <<fe_pc, dir_pages, dir_stacks, frames, visited_pages, orphan_next, reported,
             parsed>>
dsVars == <<ds_pc, ds_ignore_errors, bd_records, bd_i, bds>>
sv2Vars == <<sv_pc, finds, m_slots_map, m_is_encrypted, m_seen_bank_ids,
             m_seen_slot_fingerprints, m_failed_guess, m_current_bank_id,
             m_seen_bank_crcs, m_bank_id_to_bank, saved_banks, saved_slots, guessed,
             duplicates, synth>>
lruVars == <<_capacity, _list, _map, lru_ops, lru_op>>
bitVars == <<m_bit_size, m_mmap, bit_ops, bit_op>>
\* the variables of the components above
coreVars == <<scanVars, metaVars, exVars, slotVars, dirVars>>
vars == <<coreVars, dsVars, sv2Vars, lruVars, bitVars>>

(***************************************************************************)
(* DblBufScanner (src/src/scanning/DblBufScanner.hpp)                      *)
(***************************************************************************)
Min(a, b) == IF a < b THEN a ELSE b

ScanIdle ==
    /\ size = 0 /\ m_start = 0 /\ g_force = FALSE
    /\ rd_pc = "idle" /\ sc_pc = "idle" /\ main_pc = "idle"
    /\ mutex = "free"
    /\ m_buf_ready = [i \in 0..1 |-> FALSE]
    /\ m_offsets = [i \in 0..1 |-> 0]
    /\ m_buf_len = [i \in 0..1 |-> 0]
    /\ m_done = FALSE
    /\ rd_idx = 0 /\ sc_idx = 0 /\ pos = 0
    /\ filled = <<>> /\ processed = <<>>


\* the predicate the reader passes to m_buffer_cv.wait
ReaderWaitPred_NoWait == TRUE
ReaderWaitPred == ~m_buf_ready[rd_idx]

\* the predicate the scanner passes to m_buffer_cv.wait
ScannerWaitPred == m_buf_ready[sc_idx] \/ m_done

\* the condition of the scanner's while loop
ScanLoopCond_NoDrain == ~m_done
ScanLoopCond == ~m_done \/ m_buf_ready[sc_idx]

\* while (pos < (ssize_t)m_reader.size())
R_LoopCheck ==
    /\ UNCHANGED <<metaVars, exVars, slotVars, dirVars, dsVars, sv2Vars, lruVars, bitVars>>
    /\ rd_pc = "loop"
    /\ rd_pc' = IF pos < size THEN "lock" ELSE "set_done"
    /\ UNCHANGED <<size, m_start, g_force, sc_pc, main_pc, mutex, m_buf_ready, m_offsets,
                   m_buf_len, m_done, rd_idx, sc_idx, pos, filled, processed>>

\* std::unique_lock<std::mutex> lock(m_buffer_mutex)
R_Lock ==
    /\ UNCHANGED <<metaVars, exVars, slotVars, dirVars, dsVars, sv2Vars, lruVars, bitVars>>
    /\ rd_pc = "lock"
    /\ mutex = "free"
    /\ mutex' = "reader"
    /\ rd_pc' = "wait"
    /\ UNCHANGED <<size, m_start, g_force, sc_pc, main_pc, m_buf_ready, m_offsets,
                   m_buf_len, m_done, rd_idx, sc_idx, pos, filled, processed>>

\* m_buffer_cv.wait(lock, pred): the predicate is evaluated with the mutex held
R_WaitCheck ==
    /\ UNCHANGED <<metaVars, exVars, slotVars, dirVars, dsVars, sv2Vars, lruVars, bitVars>>
    /\ rd_pc = "wait"
    /\ rd_pc' = IF ReaderWaitPred THEN "read" ELSE "prewait"
    /\ UNCHANGED <<size, m_start, g_force, sc_pc, main_pc, mutex, m_buf_ready, m_offsets,
                   m_buf_len, m_done, rd_idx, sc_idx, pos, filled, processed>>

\* the predicate was false: wait(lock) releases the mutex and blocks, atomically
R_Block ==
    /\ UNCHANGED <<metaVars, exVars, slotVars, dirVars, dsVars, sv2Vars, lruVars, bitVars>>
    /\ rd_pc = "prewait"
    /\ mutex' = "free"
    /\ rd_pc' = "blocked"
    /\ UNCHANGED <<size, m_start, g_force, sc_pc, main_pc, m_buf_ready, m_offsets,
                   m_buf_len, m_done, rd_idx, sc_idx, pos, filled, processed>>

\* a notified (or spuriously woken) reader re-acquires the mutex inside wait()
R_Wake ==
    /\ UNCHANGED <<metaVars, exVars, slotVars, dirVars, dsVars, sv2Vars, lruVars, bitVars>>
    /\ rd_pc = "woken"
    /\ mutex = "free"
    /\ mutex' = "reader"
    /\ rd_pc' = "wait"
    /\ UNCHANGED <<size, m_start, g_force, sc_pc, main_pc, m_buf_ready, m_offsets,
                   m_buf_len, m_done, rd_idx, sc_idx, pos, filled, processed>>

\* condition variables may wake a waiter with no notification
R_SpuriousWake ==
    /\ UNCHANGED <<metaVars, exVars, slotVars, dirVars, dsVars, sv2Vars, lruVars, bitVars>>
    /\ rd_pc = "blocked"
    /\ rd_pc' = "woken"
    /\ UNCHANGED <<size, m_start, g_force, sc_pc, main_pc, mutex, m_buf_ready, m_offsets,
                   m_buf_len, m_done, rd_idx, sc_idx, pos, filled, processed>>

\* the buffer is published: m_offsets, m_buf_ready, pos; the lock's scope ends
R_Publish(nread) ==
    /\ m_buf_len' = [m_buf_len EXCEPT ![rd_idx] = nread]
    /\ m_offsets' = [m_offsets EXCEPT ![rd_idx] = pos]
    /\ m_buf_ready' = [m_buf_ready EXCEPT ![rd_idx] = TRUE]
    /\ pos' = pos + nread
    /\ filled' = Append(filled, pos)
    /\ mutex' = "free"
    /\ rd_pc' = "notify"

\* nread == 0: "unexpected EOF", break out of the while loop (the lock's scope ends)
R_Eof ==
    /\ m_buf_len' = [m_buf_len EXCEPT ![rd_idx] = m_block_size]
    /\ mutex' = "free"
    /\ rd_pc' = "set_done"
    /\ UNCHANGED <<m_offsets, m_buf_ready, pos, filled>>

\* resize, m_reader.read_at (or try_read_by_sector under g_force), publish
R_Read ==
    /\ UNCHANGED <<metaVars, exVars, slotVars, dirVars, dsVars, sv2Vars, lruVars, bitVars>>
    /\ rd_pc = "read"
    /\ \E outcome \in {"ok", "error"} :
       \E nread \in 0..Min(m_block_size, size - pos) :
          IF outcome = "error" /\ ~g_force
          THEN \* ReadError rethrown out of the thread function: std::terminate
               /\ rd_pc' = "terminated" /\ sc_pc' = "terminated" /\ main_pc' = "terminated"
               /\ UNCHANGED <<m_buf_len, m_offsets, m_buf_ready, pos, filled, mutex>>
          ELSE /\ IF nread = 0 THEN R_Eof ELSE R_Publish(nread)
               /\ UNCHANGED <<sc_pc, main_pc>>
    /\ UNCHANGED <<size, m_start, g_force, m_done, rd_idx, sc_idx, processed>>

\* m_buffer_cv.notify_one(); buf_idx = 1 - buf_idx
R_Notify ==
    /\ UNCHANGED <<metaVars, exVars, slotVars, dirVars, dsVars, sv2Vars, lruVars, bitVars>>
    /\ rd_pc = "notify"
    /\ sc_pc' = IF sc_pc = "blocked" THEN "woken" ELSE sc_pc
    /\ rd_idx' = 1 - rd_idx
    /\ rd_pc' = "loop"
    /\ UNCHANGED <<size, m_start, g_force, main_pc, mutex, m_buf_ready, m_offsets,
                   m_buf_len, m_done, sc_idx, pos, filled, processed>>

\* m_done = true (an atomic store made without the mutex)
R_SetDone ==
    /\ UNCHANGED <<metaVars, exVars, slotVars, dirVars, dsVars, sv2Vars, lruVars, bitVars>>
    /\ rd_pc = "set_done"
    /\ m_done' = TRUE
    /\ rd_pc' = "notify_all"
    /\ UNCHANGED <<size, m_start, g_force, sc_pc, main_pc, mutex, m_buf_ready, m_offsets,
                   m_buf_len, rd_idx, sc_idx, pos, filled, processed>>

\* m_buffer_cv.notify_all(); the thread function returns
R_NotifyAll ==
    /\ UNCHANGED <<metaVars, exVars, slotVars, dirVars, dsVars, sv2Vars, lruVars, bitVars>>
    /\ rd_pc = "notify_all"
    /\ sc_pc' = IF sc_pc = "blocked" THEN "woken" ELSE sc_pc
    /\ rd_pc' = "finished"
    /\ UNCHANGED <<size, m_start, g_force, main_pc, mutex, m_buf_ready, m_offsets,
                   m_buf_len, m_done, rd_idx, sc_idx, pos, filled, processed>>

\* while (!m_done || m_buf_ready[buf_idx])
S_LoopCheck ==
    /\ UNCHANGED <<metaVars, exVars, slotVars, dirVars, dsVars, sv2Vars, lruVars, bitVars>>
    /\ sc_pc = "loop"
    /\ sc_pc' = IF ScanLoopCond THEN "lock" ELSE "finished"
    /\ UNCHANGED <<size, m_start, g_force, rd_pc, main_pc, mutex, m_buf_ready, m_offsets,
                   m_buf_len, m_done, rd_idx, sc_idx, pos, filled, processed>>

S_Lock ==
    /\ UNCHANGED <<metaVars, exVars, slotVars, dirVars, dsVars, sv2Vars, lruVars, bitVars>>
    /\ sc_pc = "lock"
    /\ mutex = "free"
    /\ mutex' = "scanner"
    /\ sc_pc' = "wait"
    /\ UNCHANGED <<size, m_start, g_force, rd_pc, main_pc, m_buf_ready, m_offsets,
                   m_buf_len, m_done, rd_idx, sc_idx, pos, filled, processed>>

\* m_buffer_cv.wait(lock, pred), then if (m_buf_ready[buf_idx])
S_WaitCheck ==
    /\ UNCHANGED <<metaVars, exVars, slotVars, dirVars, dsVars, sv2Vars, lruVars, bitVars>>
    /\ sc_pc = "wait"
    /\ sc_pc' = IF ScannerWaitPred
                THEN (IF m_buf_ready[sc_idx] THEN "process" ELSE "notify")
                ELSE "prewait"
    /\ UNCHANGED <<size, m_start, g_force, rd_pc, main_pc, mutex, m_buf_ready, m_offsets,
                   m_buf_len, m_done, rd_idx, sc_idx, pos, filled, processed>>

S_Block ==
    /\ UNCHANGED <<metaVars, exVars, slotVars, dirVars, dsVars, sv2Vars, lruVars, bitVars>>
    /\ sc_pc = "prewait"
    /\ mutex' = "free"
    /\ sc_pc' = "blocked"
    /\ UNCHANGED <<size, m_start, g_force, rd_pc, main_pc, m_buf_ready, m_offsets,
                   m_buf_len, m_done, rd_idx, sc_idx, pos, filled, processed>>

S_Wake ==
    /\ UNCHANGED <<metaVars, exVars, slotVars, dirVars, dsVars, sv2Vars, lruVars, bitVars>>
    /\ sc_pc = "woken"
    /\ mutex = "free"
    /\ mutex' = "scanner"
    /\ sc_pc' = "wait"
    /\ UNCHANGED <<size, m_start, g_force, rd_pc, main_pc, m_buf_ready, m_offsets,
                   m_buf_len, m_done, rd_idx, sc_idx, pos, filled, processed>>

S_SpuriousWake ==
    /\ UNCHANGED <<metaVars, exVars, slotVars, dirVars, dsVars, sv2Vars, lruVars, bitVars>>
    /\ sc_pc = "blocked"
    /\ sc_pc' = "woken"
    /\ UNCHANGED <<size, m_start, g_force, rd_pc, main_pc, mutex, m_buf_ready, m_offsets,
                   m_buf_len, m_done, rd_idx, sc_idx, pos, filled, processed>>

\* process_buf(m_buffers[buf_idx], m_offsets[buf_idx]); m_buf_ready[buf_idx] = false
S_Process ==
    /\ UNCHANGED <<metaVars, exVars, slotVars, dirVars, dsVars, sv2Vars, lruVars, bitVars>>
    /\ sc_pc = "process"
    /\ processed' = Append(processed, m_offsets[sc_idx])
    /\ m_buf_ready' = [m_buf_ready EXCEPT ![sc_idx] = FALSE]
    /\ sc_pc' = "notify"
    /\ UNCHANGED <<size, m_start, g_force, rd_pc, main_pc, mutex, m_offsets,
                   m_buf_len, m_done, rd_idx, sc_idx, pos, filled>>

\* m_buffer_cv.notify_one(); buf_idx = 1 - buf_idx; the lock's scope ends
S_Notify ==
    /\ UNCHANGED <<metaVars, exVars, slotVars, dirVars, dsVars, sv2Vars, lruVars, bitVars>>
    /\ sc_pc = "notify"
    /\ rd_pc' = IF rd_pc = "blocked" THEN "woken" ELSE rd_pc
    /\ sc_idx' = 1 - sc_idx
    /\ mutex' = "free"
    /\ sc_pc' = "loop"
    /\ UNCHANGED <<size, m_start, g_force, main_pc, m_buf_ready, m_offsets,
                   m_buf_len, m_done, rd_idx, pos, filled, processed>>

\* join() returns once both thread functions have returned; then finish()
Main_Join ==
    /\ UNCHANGED <<metaVars, exVars, slotVars, dirVars, dsVars, sv2Vars, lruVars, bitVars>>
    /\ main_pc = "join"
    /\ rd_pc = "finished" /\ sc_pc = "finished"
    /\ main_pc' = "returned"
    /\ UNCHANGED <<size, m_start, g_force, rd_pc, sc_pc, mutex, m_buf_ready, m_offsets,
                   m_buf_len, m_done, rd_idx, sc_idx, pos, filled, processed>>

ReaderStep ==
    \/ R_LoopCheck \/ R_Lock \/ R_WaitCheck \/ R_Block \/ R_Wake
    \/ R_Read \/ R_Notify \/ R_SetDone \/ R_NotifyAll

ScannerStep ==
    \/ S_LoopCheck \/ S_Lock \/ S_WaitCheck \/ S_Block \/ S_Wake
    \/ S_Process \/ S_Notify

\* (an exception leaving read_thr_proc ends the process: every pc is "terminated"
\* and nothing runs after it)
ScanNext ==
    \/ R_LoopCheck \/ R_Lock \/ R_WaitCheck \/ R_Block \/ R_Wake \/ R_SpuriousWake
    \/ R_Read \/ R_Notify \/ R_SetDone \/ R_NotifyAll
    \/ S_LoopCheck \/ S_Lock \/ S_WaitCheck \/ S_Block \/ S_Wake \/ S_SpuriousWake
    \/ S_Process \/ S_Notify
    \/ Main_Join


(***************************************************************************)
(* PhysPageId (src/src/Veeam/VBK.hpp)                                      *)
(***************************************************************************)
PPI(b, p) == [bank |-> b, page |-> p]
INVALID_PPI == PPI(-1, -1)

valid(ppi) ==
    /\ ppi.bank > -1 /\ ppi.bank <= MAX_BANKS
    /\ ppi.page > -1 /\ ppi.page <= V13_MAX_PAGES

(***************************************************************************)
(* CPageStack (src/src/Veeam/VBK/CPageStack.hpp)                           *)
(***************************************************************************)
PPIS_PER_PAGE == PAGE_SIZE \div 8

RECURSIVE reqTableNumFor(_, _)
reqTableNumFor(page_idx, reqTableNum) ==
    IF page_idx + 1 > 510 * reqTableNum
    THEN reqTableNumFor(page_idx, reqTableNum * 4)
    ELSE reqTableNum

calc_idx(page_idx) ==
    LET reqTableNum == reqTableNumFor(page_idx, 1) + page_idx
        tableIdx == reqTableNum \div 511
        tableOfs == reqTableNum % 511
    IN 512 * tableIdx + tableOfs + 1

\* A page as the traversal sees it: the PhysPageId at offset 0 (next), the one at
\* offset 8 (RootPage::page_id) and the PhysPageIds after them: "gap" holds a valid
\* id, an empty one and another valid id, then empty ids; "ff" holds empty ids only.
PageEntry(page, ofs) ==
    IF ofs = 0 THEN page.next
    ELSE IF ofs = 1 THEN page.self
    ELSE IF page.pat = "gap" /\ ofs = 2 THEN PPI(0, 1)
    ELSE IF page.pat = "gap" /\ ofs = 4 THEN PPI(0, 2)
    ELSE INVALID_PPI

\* m_pageTables[idx] (0-based), the tables being the added pages laid end to end
TableAt(tables, idx) == PageEntry(tables[(idx \div PPIS_PER_PAGE) + 1], idx % PPIS_PER_PAGE)

\* m_pageIds[i] (0-based) after the copy loop of finalize
CopiedId(tables, i) ==
    IF calc_idx(i) < PPIS_PER_PAGE * Len(tables)
    THEN TableAt(tables, calc_idx(i))
    ELSE INVALID_PPI

\* the value of i when the trimming loop of finalize ends
TrimmedSize_NoTrim(tables) == PPIS_PER_PAGE * Len(tables)
TrimmedSize(tables) ==
    LET n == PPIS_PER_PAGE * Len(tables)
        keep == {i \in 1..n : valid(CopiedId(tables, i - 1))}
    IN IF keep = {} THEN 0 ELSE CHOOSE i \in keep : \A j \in keep : j <= i

\* CPageStack::finalize: the resulting m_pageIds
finalize(tables) == [i \in 1..TrimmedSize(tables) |-> CopiedId(tables, i - 1)]

(***************************************************************************)
(* CMeta::get_page, CMeta::get_page_stack (src/src/core/CMeta.cpp)         *)
(***************************************************************************)
PageKeys == {PPI(0, p) : p \in 0..MaxPage}
\* a valid id whose bank is never loaded
AbsentPPI == PPI(1, 0)
NextSet == PageKeys \cup {INVALID_PPI, AbsentPPI}
Unread == [next |-> INVALID_PPI, self |-> INVALID_PPI, pat |-> "unread"]
PageContents(ppi, root) ==
    [next : NextSet,
     self : IF root THEN {ppi, INVALID_PPI} ELSE {ppi},
     pat  : IF root THEN {"ff", "gap"} ELSE {"ff"}]

\* bank buffers: empty, a header page only, the last page missing, the last page cut
\* after its first byte, every page present
BankSizes ==
    {0, PAGE_SIZE, (MaxPage + 1) * PAGE_SIZE, (MaxPage + 1) * PAGE_SIZE + 1,
     (MaxPage + 2) * PAGE_SIZE}

\* m_banks.size() <= (uint32_t)ppi.bank_id is false: a negative bank_id casts to a
\* value of at least 2^31, more than any number of banks
BankLoaded(ppi) == ppi.bank >= 0 /\ ppi.bank < Len(m_banks)

\* (ppi.page_id+1)*PAGE_SIZE as size_t
PageOffset(ppi) == (ppi.page + 1) * PAGE_SIZE

\* m_banks[ppi.bank_id].size() <= (ppi.page_id+1)*PAGE_SIZE is false; for
\* page_id < -1 the product, taken in size_t, exceeds every buffer size
BankLongEnough(ppi) ==
    ppi.page >= -1 /\ m_banks[ppi.bank + 1] > PageOffset(ppi)

\* the return value of get_page(ppi)
get_page(ppi) == BankLoaded(ppi) /\ BankLongEnough(ppi)

\* the memcpy of get_page reads PAGE_SIZE bytes; it reads past the end of the bank
\* buffer when the buffer ends inside the page
OverRead(ppi) == get_page(ppi) /\ m_banks[ppi.bank + 1] < PageOffset(ppi) + PAGE_SIZE

MetaIdle ==
    /\ m_banks = <<>>
    /\ bank_data = [k \in PageKeys |-> Unread]
    /\ gp_ppi = INVALID_PPI /\ gp_result = FALSE /\ gp_dst_len = 0 /\ gp_copy_end = 0
    /\ gps_pc = "idle" /\ ppi0 = INVALID_PPI /\ gps_ppi = INVALID_PPI
    /\ first_page = TRUE /\ visited_index_pages = {}
    /\ m_pageTables = <<>> /\ stack_pages = <<>> /\ m_pageIds = <<>>
    /\ m_finalized = FALSE /\ gps_iters = 0


ProbeSet == {PPI(b, p) : b \in {-1, 0, 1}, p \in -2..(MaxPage + 1)}

\* a call get_page(ppi, dst) made directly (CMeta::load_keysets_from_bank, MDCommand)
GetPageCall ==
    /\ UNCHANGED <<scanVars, exVars, slotVars, dirVars, dsVars, sv2Vars, lruVars, bitVars>>
    /\ gps_pc = "idle"
    /\ \E ppi \in ProbeSet :
        /\ gp_ppi' = ppi
        /\ gp_result' = get_page(ppi)
        /\ gp_dst_len' = IF get_page(ppi) THEN PAGE_SIZE ELSE 0
        /\ gp_copy_end' = IF get_page(ppi) THEN PageOffset(ppi) + PAGE_SIZE ELSE 0
    /\ UNCHANGED <<m_banks, bank_data, gps_pc, ppi0, gps_ppi, first_page,
                   visited_index_pages, m_pageTables, stack_pages, m_pageIds,
                   m_finalized, gps_iters>>

\* get_page_stack(root) is entered: CPageStack stack; ppi = ppi0; first_page = true
GpsStart ==
    /\ UNCHANGED <<scanVars, exVars, slotVars, dirVars, dsVars, sv2Vars, lruVars, bitVars>>
    /\ gps_pc = "idle"
    /\ \E root \in NextSet :
        /\ ppi0' = root
        /\ gps_ppi' = root
    /\ gps_pc' = "loop"
    /\ first_page' = TRUE
    /\ visited_index_pages' = {}
    /\ m_pageTables' = <<>> /\ stack_pages' = <<>> /\ m_pageIds' = <<>>
    /\ m_finalized' = FALSE /\ gps_iters' = 0
    /\ gp_ppi' = INVALID_PPI /\ gp_result' = FALSE /\ gp_dst_len' = 0 /\ gp_copy_end' = 0
    /\ UNCHANGED <<m_banks, bank_data>>

\* return stack.finalize()
GpsReturn ==
    /\ m_pageIds' = finalize(m_pageTables)
    /\ m_finalized' = TRUE
    /\ gps_pc' = "done"
    /\ UNCHANGED <<gps_ppi, visited_index_pages, m_pageTables, stack_pages>>

\* the visited check of one iteration: the page was seen before
Revisited(ppi) == ppi \in visited_index_pages

\* the rest of one iteration once get_page has delivered `page`
GpsVisit(page) ==
    IF first_page /\ page.self # ppi0
    THEN \* "first page is not the root page"
         GpsReturn /\ first_page' = FALSE
    ELSE IF ~first_page /\ Revisited(gps_ppi)
    THEN \* "circular reference"
         GpsReturn /\ UNCHANGED first_page
    ELSE /\ first_page' = FALSE
         /\ visited_index_pages' = visited_index_pages \cup {gps_ppi}
         /\ m_pageTables' = Append(m_pageTables, page)
         /\ stack_pages' = Append(stack_pages, gps_ppi)
         /\ gps_ppi' = page.next
         /\ UNCHANGED <<gps_pc, m_pageIds, m_finalized>>

\* one evaluation of while( ppi.valid() ) and of the loop body
GpsStep ==
    /\ UNCHANGED <<scanVars, exVars, slotVars, dirVars, dsVars, sv2Vars, lruVars, bitVars>>
    /\ gps_pc = "loop"
    /\ gps_iters' = gps_iters + 1
    /\ IF ~valid(gps_ppi)
       THEN GpsReturn /\ UNCHANGED <<bank_data, first_page>>
       ELSE IF ~get_page(gps_ppi)
       THEN \* "failed to get page, stack truncated!"
            GpsReturn /\ UNCHANGED <<bank_data, first_page>>
       ELSE IF OverRead(gps_ppi)
       THEN \* the bytes past the end of the buffer are whatever memory holds there,
            \* or the read faults
            \/ /\ gps_pc' = "crashed"
               /\ UNCHANGED <<bank_data, gps_ppi, first_page, visited_index_pages,
                              m_pageTables, stack_pages, m_pageIds, m_finalized>>
            \/ /\ \E page \in PageContents(gps_ppi, first_page) : GpsVisit(page)
               /\ UNCHANGED bank_data
       ELSE IF bank_data[gps_ppi] = Unread
       THEN \E page \in PageContents(gps_ppi, first_page) :
               /\ bank_data' = [bank_data EXCEPT ![gps_ppi] = page]
               /\ GpsVisit(page)
       ELSE GpsVisit(bank_data[gps_ppi]) /\ UNCHANGED bank_data
    /\ UNCHANGED <<m_banks, gp_ppi, gp_result, gp_dst_len, gp_copy_end, ppi0>>

MetaNext == GetPageCall \/ GpsStart \/ GpsStep


(***************************************************************************)
(* CMeta::get_file_blocks (src/src/core/CMeta.cpp) and                     *)
(* ExtractContext::process_file (src/src/processing/ExtractContext.cpp)    *)
(***************************************************************************)
\* VBlockDesc: hash is "zero" (ZERO_BLOCK_DIGEST), "empty" (EMPTY_BLOCK_DIGEST) or
\* "md5" (the digest of some data)
ZeroDesc == [hash |-> "zero", size |-> 0, vib_offset |-> 0]
VibOffsets == {0, 3}
\* the descriptors a metadata page can hold
PageDescs ==
    {ZeroDesc, [hash |-> "empty", size |-> BLOCK_SIZE, vib_offset |-> 0]}
    \cup {[hash |-> "md5", size |-> BLOCK_SIZE, vib_offset |-> v] : v \in VibOffsets}

is_empty(blk) == blk.hash \in {"empty", "zero"}
is_patch(blk) == blk.size = BLOCK_SIZE /\ blk.vib_offset # 0
is_sparse(blk) == blk = ZeroDesc

FileTypes == {"FT_INT_FIB", "FT_INCREMENT"}
is_diff(vf) == vf.type \in {"FT_INCREMENT", "FT_PATCH"}

\* buf_t::for_each visits size()/sizeof(T) records of a page
PATCH_DESCS_PER_PAGE == PAGE_SIZE \div 53
FIB_DESCS_PER_PAGE == PAGE_SIZE \div 46

\* number of records pushed from one page by a callback that pushes a record and
\* then returns `count < limit`: at least one, then up to the limit or the page end
PushCount(count, limit, perPage) ==
    IF limit - count < 1 THEN 1
    ELSE IF limit - count > perPage THEN perPage
    ELSE limit - count

SeqsOfLen(S, n) == [1..n -> S]

\* blocks.resize(blocks.size() + MAX_BLOCKS)
SparseRun == [k \in 1..MAX_BLOCKS |-> ZeroDesc]

\* the while loop that ends get_file_blocks: the length it leaves
TrimmedLen(blocks, nBlocks) ==
    LET nonSparse == {k \in 1..Len(blocks) : ~is_sparse(blocks[k])}
        lastData == IF nonSparse = {} THEN 0
                    ELSE CHOOSE k \in nonSparse : \A j \in nonSparse : j <= k
        floor == IF Len(blocks) > nBlocks THEN nBlocks ELSE Len(blocks)
    IN IF lastData > floor THEN lastData ELSE floor

NoCounters ==
    [sparse_blocks |-> 0, nOK |-> 0, nMissMD |-> 0, nMissHT |-> 0,
     nErrDecomp |-> 0, nErrCRC |-> 0, nReadErr |-> 0]
GfbIdle == [read |-> 0, sparse |-> 0, nBlocks |-> 0, nBlocks2 |-> 0]

ExIdle ==
    /\ ex_pc = "idle"
    /\ vFile = [type |-> "FT_INT_FIB", nBlocks |-> 0, filesize |-> 0]
    /\ test_only = FALSE
    /\ vAllB = <<>> /\ gfb = GfbIdle
    /\ blk_i = 0 /\ fti = NoCounters
    /\ remaining_size = 0 /\ actual_written = 0 /\ tell = 0
    /\ lz4_written = {} /\ sum_len = 0 /\ plain = TRUE
    /\ written_at = {} /\ missing_keyset = 0

FileSizes == {BLOCK_SIZE \div 2, 3 * (BLOCK_SIZE \div 2)}
\* lengths of decoded blocks: a short last block and a full block
DecodedSizes == {BLOCK_SIZE \div 2, BLOCK_SIZE}

loopVars == <<blk_i, fti, remaining_size, actual_written, tell, lz4_written, sum_len, plain,
              written_at, missing_keyset>>

\* FT_INCREMENT: the next readable page of the file's page stack
GfbPatchPage ==
    /\ UNCHANGED <<scanVars, metaVars, slotVars, dirVars, dsVars, sv2Vars, lruVars, bitVars>>
    /\ ex_pc = "gfb" /\ vFile.type = "FT_INCREMENT"
    /\ LET n == PushCount(Len(vAllB), vFile.nBlocks, PATCH_DESCS_PER_PAGE) IN
        /\ gfb.read + n <= MaxBlocks
        /\ \E descs \in SeqsOfLen(PageDescs, n) : vAllB' = vAllB \o descs
        /\ gfb' = [gfb EXCEPT !.read = @ + n]
    /\ UNCHANGED <<ex_pc, vFile, test_only, loopVars>>

\* otherwise: the next valid SMetaTableDescriptor is a sparse one
GfbSparseDescriptor ==
    /\ UNCHANGED <<scanVars, metaVars, slotVars, dirVars, dsVars, sv2Vars, lruVars, bitVars>>
    /\ ex_pc = "gfb" /\ vFile.type # "FT_INCREMENT"
    /\ gfb.sparse < MaxSparse
    /\ vAllB' = vAllB \o SparseRun
    /\ gfb' = [gfb EXCEPT !.sparse = @ + 1]
    /\ UNCHANGED <<ex_pc, vFile, test_only, loopVars>>

\* otherwise: the next valid SMetaTableDescriptor names a table of nBlocks blocks
GfbTableDescriptor ==
    /\ UNCHANGED <<scanVars, metaVars, slotVars, dirVars, dsVars, sv2Vars, lruVars, bitVars>>
    /\ ex_pc = "gfb" /\ vFile.type # "FT_INCREMENT"
    /\ gfb.read < MaxBlocks
    /\ \E n \in 1..MaxBlocks : gfb' = [gfb EXCEPT !.nBlocks = n, !.nBlocks2 = 0]
    /\ ex_pc' = "gfb_table"
    /\ UNCHANGED <<vFile, test_only, vAllB, loopVars>>

\* the next readable page of the table's page stack
GfbTablePage ==
    /\ UNCHANGED <<scanVars, metaVars, slotVars, dirVars, dsVars, sv2Vars, lruVars, bitVars>>
    /\ ex_pc = "gfb_table"
    /\ LET n == PushCount(gfb.nBlocks2, gfb.nBlocks, FIB_DESCS_PER_PAGE) IN
        /\ gfb.read + n <= MaxBlocks
        /\ \E descs \in SeqsOfLen(PageDescs, n) : vAllB' = vAllB \o descs
        /\ gfb' = [gfb EXCEPT !.read = @ + n, !.nBlocks2 = @ + n]
    /\ UNCHANGED <<ex_pc, vFile, test_only, loopVars>>

\* the table's page stack is exhausted
GfbTableEnd ==
    /\ UNCHANGED <<scanVars, metaVars, slotVars, dirVars, dsVars, sv2Vars, lruVars, bitVars>>
    /\ ex_pc = "gfb_table"
    /\ ex_pc' = "gfb"
    /\ UNCHANGED <<vFile, test_only, vAllB, gfb, loopVars>>

\* the test i < vAllB.size() of the per-block loop: after the last block the
\* statistics are reported and process_file returns (lines 515-546)
LoopOrDone(idx, blocks) == IF idx < Len(blocks) THEN "loop" ELSE "done"

\* the file's page stack is exhausted: get_file_blocks trims and returns the list,
\* process_file sets remaining_size and nMissMD (lines 164-176)
GfbReturn ==
    /\ UNCHANGED <<scanVars, metaVars, slotVars, dirVars, dsVars, sv2Vars, lruVars, bitVars>>
    /\ ex_pc = "gfb"
    /\ LET blocks == SubSeq(vAllB, 1, TrimmedLen(vAllB, vFile.nBlocks)) IN
        /\ vAllB' = blocks
        /\ fti' = IF Len(blocks) > vFile.nBlocks
                  THEN fti
                  ELSE [fti EXCEPT !.nMissMD = vFile.nBlocks - Len(blocks)]
        /\ ex_pc' = IF Len(blocks) > MaxBlocks THEN "long_list" ELSE LoopOrDone(0, blocks)
    /\ remaining_size' = vFile.filesize
    /\ gfb' = GfbIdle
    /\ UNCHANGED <<vFile, test_only, blk_i, actual_written, tell, lz4_written,
                   sum_len, plain, written_at, missing_keyset>>

\* std::optional<Writer> writer is engaged unless test_only
writer == ~test_only

\* the container file is given (MDCommand sets have_vbk = (vbkf != nullptr)) and
\* --skip-read is not (no_read keeps its default)
have_vbk == TRUE
no_read == FALSE

CompTypes == {"CT_NONE", "CT_LZ4", "CT_RLE", "CT_ZLIB", "CT_ZSTD", "unknown"}

\* to_write of lines 316, 341, 395, 455
to_write_Whole(remaining, len) == len
to_write(remaining, len) == IF remaining > 0 /\ remaining < len THEN remaining ELSE len

Tally(counter) == IF counter = "-" THEN fti ELSE [fti EXCEPT ![counter] = @ + 1]

\* the iteration ends with skip_size = BLOCK_SIZE (lines 486-491); pos0 is the
\* Writer position the iteration reached before
Skip(counter, pos0) ==
    /\ fti' = Tally(counter)
    /\ tell' = IF writer THEN pos0 + BLOCK_SIZE ELSE tell
    /\ remaining_size' = remaining_size - BLOCK_SIZE
    /\ plain' = FALSE
    /\ blk_i' = blk_i + 1
    /\ ex_pc' = LoopOrDone(blk_i + 1, vAllB)
    /\ UNCHANGED <<actual_written, sum_len, lz4_written, written_at>>

BlockSkipped(counter, pos0) == Skip(counter, pos0) /\ UNCHANGED missing_keyset

\* lines 300-306: get_aes_cipher returns no cipher for the block's keyset id:
\* "missing keyset" is logged and the block is skipped; no counter of fti changes
KeysetMissing(pos0) == Skip("-", pos0) /\ missing_keyset' = missing_keyset + 1

\* the iteration hands to_write bytes of a decoded block of len bytes to the Writer
BlockWritten(counter, pos0, len, lz4_checks) ==
    LET n == to_write(remaining_size, len) IN
    /\ fti' = Tally(counter)
    /\ tell' = IF writer THEN pos0 + n ELSE tell
    /\ actual_written' = actual_written + n
    /\ remaining_size' = remaining_size - n
    /\ sum_len' = sum_len + len
    /\ lz4_written' = IF writer THEN lz4_written \cup lz4_checks ELSE lz4_written
    /\ written_at' = IF writer
                     THEN written_at \cup {[vib_offset |-> vAllB[blk_i + 1].vib_offset,
                                            size |-> vAllB[blk_i + 1].size,
                                            pos |-> pos0]}
                     ELSE written_at
    /\ UNCHANGED missing_keyset
    /\ plain' = (plain /\ remaining_size > 0 /\ pos0 = tell)
    /\ blk_i' = blk_i + 1
    /\ ex_pc' = LoopOrDone(blk_i + 1, vAllB)

\* an exception leaves the loop and process_file
BlockThrows(pos0) ==
    /\ ex_pc' = "thrown"
    /\ tell' = pos0
    /\ UNCHANGED <<blk_i, fti, remaining_size, actual_written, sum_len, plain,
                   lz4_written, written_at, missing_keyset>>

\* switch( effective_comp_type ), lines 313-483. (case 0 with a zero hash is never
\* reached: a block with a zero hash is_empty.)
Decode(pos0) ==
    \E comp \in CompTypes :
        CASE comp = "CT_NONE" ->
                \E len \in DecodedSizes : BlockWritten("nOK", pos0, len, {})
          [] comp = "CT_LZ4" ->
                \E hdr_valid \in BOOLEAN :
                    IF ~hdr_valid
                    THEN BlockSkipped("nErrDecomp", pos0)
                    ELSE \E srcSize \in DecodedSizes, lz4res_ok \in BOOLEAN :
                         \E crc_ok \in (IF lz4res_ok THEN BOOLEAN ELSE {FALSE}) :
                            BlockWritten(IF ~lz4res_ok THEN "nErrDecomp"
                                         ELSE IF ~crc_ok THEN "nErrCRC" ELSE "nOK",
                                         pos0, srcSize,
                                         {[lz4res_ok |-> lz4res_ok, crc_ok |-> crc_ok]})
          [] comp = "CT_RLE" -> BlockThrows(pos0)
          [] comp \in {"CT_ZLIB", "CT_ZSTD"} ->
                \E inflated_and_md5_ok \in BOOLEAN :
                    IF inflated_and_md5_ok
                    THEN \E len \in DecodedSizes : BlockWritten("nOK", pos0, len, {})
                    ELSE BlockSkipped("nErrDecomp", pos0)
          [] OTHER -> BlockSkipped("-", pos0)

\* lines 273-311: fast paths, read_at, decryption. (When lzBuf still holds the
\* block, line 289, the read and the decryption are not repeated: the outcomes are
\* those of a successful read.)
Fetch(pos0) ==
    \E cached \in (IF writer THEN {FALSE} ELSE BOOLEAN) :
        IF cached \/ ~have_vbk
        THEN BlockSkipped("nOK", pos0)
        ELSE IF no_read
        THEN BlockSkipped("nOK", pos0)
        ELSE \E nread_ok \in BOOLEAN :
            IF ~nread_ok
            THEN BlockSkipped("nReadErr", pos0)
            ELSE \E keyset \in {"none", "missing", "bad padding", "decrypted"} :
                IF keyset = "missing"
                THEN KeysetMissing(pos0)
                ELSE IF keyset = "bad padding"
                THEN \* AES256::decrypt throws "invalid PKCS#7 padding"
                     BlockThrows(pos0)
                ELSE Decode(pos0)

\* one iteration of the per-block loop, lines 178-513, and the loop test after it.
\* (exHT, whether an external hash table is loaded, is fixed for a run; nothing the
\* loop keeps depends on it, so it is drawn with the block.)
ExBlock ==
    /\ UNCHANGED <<scanVars, metaVars, slotVars, dirVars, dsVars, sv2Vars, lruVars, bitVars>>
    /\ ex_pc = "loop" /\ blk_i < Len(vAllB)
    /\ LET blk == vAllB[blk_i + 1] IN
        IF is_empty(blk)
        THEN BlockSkipped("sparse_blocks", tell)
        ELSE \E found_in_bds \in BOOLEAN, exHT \in BOOLEAN :
            IF ~found_in_bds /\ ~exHT
            THEN BlockSkipped("nMissHT", tell)
            ELSE LET pos0 == IF writer /\ is_diff(vFile) /\ is_patch(blk)
                             THEN blk.vib_offset * BLOCK_SIZE
                             ELSE tell
                 IN \E data_block \in (IF exHT THEN BOOLEAN ELSE {TRUE}) :
                        IF ~data_block
                        THEN BlockSkipped("nMissHT", pos0)
                        ELSE Fetch(pos0)
    /\ UNCHANGED <<vFile, test_only, vAllB, gfb>>

ExNext ==
    \/ GfbPatchPage \/ GfbSparseDescriptor \/ GfbTableDescriptor \/ GfbTablePage
    \/ GfbTableEnd \/ GfbReturn \/ ExBlock

(***************************************************************************)
(* VBKCommand::run (src/src/commands/VBKCommand.cpp), MDCommand::create_meta *)
(* and CMeta::CMeta, import_slot, load_keysets_from_bank, read_datastore   *)
(***************************************************************************)
\* FileHeader::max_banks()
hdr_max_banks(slot_fmt) ==
    CASE slot_fmt = 0 -> 248
      [] slot_fmt \in {5, 9} -> 32512
      [] OTHER -> 0

\* x & ~(n - 1) for a power of two n
ClearLow(x, n) == x - (x % n)

\* FileHeader::slot_size()
hdr_slot_size(slot_fmt) ==
    ClearLow(ClearLow(hdr_max_banks(slot_fmt) * SizeofBankInfo, 16) + 120, 4096) + PAGE_SIZE

\* the headers of a container: not valid(), or valid() with slot_fmt 0
Headers == {[valid |-> FALSE, slot_fmt |-> 0], [valid |-> TRUE, slot_fmt |-> 0]}

\* const size_t slot_size = hdr->valid() ? hdr->slot_size() : 0x80000
slot_size == IF hdr.valid THEN hdr_slot_size(hdr.slot_fmt) ELSE 524288

\* CSlot: crc is the stored checksum, vcrc the checksum vcrc32 computes over the
\* bytes after it
ZeroSlot == [crc |-> 0, vcrc |-> 1, has_snapshot |-> 0, max_banks |-> 0,
             allocated_banks |-> 0]
SlotRecs ==
    {r \in [crc : {0, 1}, vcrc : {1, 2}, has_snapshot : {0, 1},
            max_banks : {1, 248, MAX_BANKS + 1}, allocated_banks : 0..MaxAlloc] :
        r.crc = 0 => r.vcrc = 1}

CSlot_size(slot) == SizeofCSlot + slot.max_banks * SizeofBankInfo
CSlot_valid_fast(slot) ==
    /\ slot.crc # 0
    /\ slot.has_snapshot = 1
    /\ slot.max_banks > 0 /\ slot.max_banks <= MAX_BANKS
    /\ slot.allocated_banks <= slot.max_banks
CSlot_valid_crc(slot) == slot.vcrc = slot.crc

\* bool valid = slot->size() <= slot_size && slot->valid_fast() && slot->valid_crc()
SlotAccepted(slot) ==
    CSlot_size(slot) <= slot_size /\ CSlot_valid_fast(slot) /\ CSlot_valid_crc(slot)

\* size_t slot_offset = offset + PAGE_SIZE + slot_idx * slot_size, --offset being 0
SlotOffset(idx) == PAGE_SIZE + idx * slot_size

\* std::count(bitmap.begin(), bitmap.end(), true)
Score(bitmap) == Cardinality({k \in DOMAIN bitmap : bitmap[k]})

NoBest == [score |-> 0, offset |-> 0]

\* the loop over slots_map (a std::map: ascending slot offsets), lines 173-191
RECURSIVE ScanScores(_, _, _)
ScanScores_Skip(map, todo, best) == best
ScanScores_Any(map, todo, best) == [score |-> 1, offset |-> PAGE_SIZE]
ScanScores(map, todo, best) ==
    IF todo = {}
    THEN best
    ELSE LET slot_offset == CHOOSE x \in todo : \A y \in todo : x <= y
             score == Score(map[slot_offset])
         IN ScanScores(map, todo \ {slot_offset},
                       IF score > best.score
                       THEN [score |-> score, offset |-> slot_offset]
                       ELSE best)

NoMap == [o \in {} |-> <<>>]
NoDeath == [by |-> "-", msg |-> ""]

SlotIdle ==
    /\ cmd = "-" /\ ses_pc = "idle"
    /\ hdr = [valid |-> FALSE, slot_fmt |-> 0]
    /\ slots = [k \in 0..(MAX_SLOTS - 1) |-> ZeroSlot]
    /\ opt_slot = -1 /\ slot_idx = 0 /\ slots_map = NoMap /\ best_slot_offset = 0
    /\ exit_code = -1 /\ message = "" /\ m_meta_offset = -1
    /\ m_ignore_errors = FALSE /\ password_given = FALSE
    /\ cm_slot = ZeroSlot /\ banks_loaded = FALSE
    /\ keysets_result = "-" /\ died_in = NoDeath /\ meta_state = "-"

cmetaVars == <<m_ignore_errors, password_given, cm_slot, banks_loaded, keysets_result,
               died_in, meta_state>>

\* one iteration of for( slot_idx = 0; slot_idx < MAX_SLOTS; slot_idx++ ), lines 98-157
VbkScanSlot ==
    /\ UNCHANGED <<scanVars, metaVars, exVars, dirVars, dsVars, sv2Vars, lruVars, bitVars>>
    /\ ses_pc = "vbk_scan" /\ slot_idx < MAX_SLOTS
    /\ IF opt_slot # -1 /\ opt_slot # slot_idx
       THEN UNCHANGED slots_map
       ELSE LET slot == slots[slot_idx] IN
            IF ~SlotAccepted(slot)
            THEN UNCHANGED slots_map
            ELSE \* slots_map[slot_offset][i] = bank i passes valid_fast, crc and size
                 \E bitmap \in [1..slot.allocated_banks -> BOOLEAN] :
                    slots_map' = (SlotOffset(slot_idx) :> bitmap) @@ slots_map
    /\ slot_idx' = slot_idx + 1
    /\ ses_pc' = IF slot_idx + 1 < MAX_SLOTS THEN "vbk_scan" ELSE "vbk_select"
    /\ UNCHANGED <<cmd, hdr, slots, opt_slot, best_slot_offset, exit_code, message,
                   m_meta_offset, cmetaVars>>

\* lines 169-209: the best slot is handed to MDCommand, or the session ends
VbkSelect ==
    /\ UNCHANGED <<scanVars, metaVars, exVars, dirVars, dsVars, sv2Vars, lruVars, bitVars>>
    /\ ses_pc = "vbk_select"
    /\ LET best == ScanScores(slots_map, DOMAIN slots_map, NoBest) IN
        /\ best_slot_offset' = best.offset
        /\ IF best.score > 0
           THEN /\ m_meta_offset' = best.offset
                /\ ses_pc' = "create_meta"
                /\ UNCHANGED <<exit_code, message>>
           ELSE /\ message' = "no valid slots found"
                /\ exit_code' = 1
                /\ ses_pc' = "exit"
                /\ UNCHANGED m_meta_offset
    /\ UNCHANGED <<cmd, hdr, slots, opt_slot, slot_idx, slots_map, cmetaVars>>

\* the CSlot at the offset CMeta is given: a slot of the container, or the slot a
\* slot file begins with (MDCommand on a .slot file: offset 0, MS_SLOT)
SlotAt(offset) == IF cmd = "md" THEN slots[0] ELSE slots[(offset - PAGE_SIZE) \div slot_size]

\* CMeta::log_or_die: the message is logged; it throws unless ignore_errors
log_or_die(ignore_errors) == IF ignore_errors THEN "logged" ELSE "thrown"

\* values of SnapshotDescriptor.objRefs.CryptoStoreRootPage
CryptoRoots == {INVALID_PPI, PPI(0, 0), PPI(MaxAlloc, 0)}

\* the constructor is left by an exception
CtorThrows(how) ==
    /\ ses_pc' = "thrown"
    /\ died_in' = how
    /\ meta_state' = "-"

\* CMeta::CMeta (lines 45-77) with meta_src MS_SLOT and import_slot up to the test
\* of CryptoStoreRootPage (lines 118-161). The flags are constructor arguments:
\* MDCommand::create_meta passes g_force and --password.
ImportSlot ==
    /\ UNCHANGED <<scanVars, metaVars, exVars, dirVars, dsVars, sv2Vars, lruVars, bitVars>>
    /\ ses_pc = "create_meta"
    /\ m_ignore_errors' \in BOOLEAN
    /\ password_given' \in BOOLEAN
    /\ LET slot == SlotAt(m_meta_offset) IN
        /\ cm_slot' = slot
        /\ IF CSlot_size(slot) < PAGE_SIZE
           THEN \* "Invalid Slot size"
                /\ CtorThrows([by |-> "exception", msg |-> "Invalid Slot size"])
                /\ UNCHANGED banks_loaded
           ELSE \* valid_fast and valid_crc are computed and logged (lines 136-142);
                \* m_banks is resized to allocated_banks and the banks are read
                /\ banks_loaded' = TRUE
                /\ \/ \* bankInfos[i] with i >= max_banks lies beyond the slot buffer
                      /\ slot.allocated_banks > slot.max_banks
                      /\ CtorThrows([by |-> "crash", msg |-> "read beyond a buffer"])
                   \/ \E crypto \in CryptoRoots :
                        IF ~valid(crypto)
                        THEN /\ ses_pc' = "constructed"
                             /\ meta_state' = "plain"
                             /\ UNCHANGED died_in
                        ELSE \/ \* m_banks[bank_id] with bank_id >= m_banks.size()
                                /\ crypto.bank >= slot.allocated_banks
                                /\ CtorThrows([by |-> "crash", msg |-> "read beyond a buffer"])
                             \/ /\ ses_pc' = "keysets"
                                /\ UNCHANGED <<died_in, meta_state>>
    /\ UNCHANGED <<cmd, hdr, slots, opt_slot, slot_idx, slots_map, best_slot_offset,
                   exit_code, message, m_meta_offset, keysets_result>>

\* the messages of the log_or_die calls of load_keysets_from_bank after the
\* password test (lines 235-463)
KeysetAssertions ==
    {"CryptoStoreRootPage isn't a metavec2 start", "Keyset points to an invalid bank",
     "Couldn't read SKeySetRec page", "SKeySetRec page didn't contain any valid entries",
     "No keysets found", "Couldn't read blob", "RSA key blob isn't valid",
     "No KR_AGENT keyset found", "No KR_STORAGE keyset found",
     "decrypted data is too short", "Failed to register cipher",
     "Found neither KR_POLICY nor KR_STORAGE keysets"}

\* exceptions of crypto::decrypt_pbkdf2_data, crypto::rsa_decrypt, AES256::decrypt
\* inside load_keysets_from_bank (lines 315, 334, 356, 414)
CryptoExceptions ==
    {"All PBKDF2 decryption attempts failed", "rsa decrypt failed",
     "invalid PKCS#7 padding"}

\* a failed assertion of load_keysets_from_bank: log_or_die(false, ...); return false
KeysetAssertionFails(msg) ==
    /\ keysets_result' = "failed"
    /\ IF log_or_die(FALSE) = "thrown"
       THEN CtorThrows([by |-> "log_or_die", msg |-> msg])
       ELSE /\ ses_pc' = "decrypt_banks"
            /\ UNCHANGED <<died_in, meta_state>>

\* load_keysets_from_bank(*bank, m_password, false), lines 166-167 and 225-482
LoadKeysets ==
    /\ UNCHANGED <<scanVars, metaVars, exVars, dirVars, dsVars, sv2Vars, lruVars, bitVars>>
    /\ ses_pc = "keysets"
    /\ IF ~password_given
       THEN KeysetAssertionFails("Need a password to decrypt this backup.")
       ELSE \/ \E msg \in KeysetAssertions : KeysetAssertionFails(msg)
            \/ \E msg \in CryptoExceptions :
                /\ keysets_result' = "failed"
                /\ CtorThrows([by |-> "exception", msg |-> msg])
            \/ \* return !m_aes_keys.empty(), a keyset having been registered
               /\ keysets_result' = "loaded"
               /\ ses_pc' = "decrypt_banks"
               /\ UNCHANGED <<died_in, meta_state>>
    /\ UNCHANGED <<cmd, hdr, slots, opt_slot, slot_idx, slots_map, best_slot_offset,
                   exit_code, message, m_meta_offset, m_ignore_errors, password_given,
                   cm_slot, banks_loaded>>

\* lines 171-222: every encrypted bank whose keyset has a cipher is decrypted in
\* place; a bank without a cipher, or whose decryption fails, stays encrypted
DecryptBanks ==
    /\ UNCHANGED <<scanVars, metaVars, exVars, dirVars, dsVars, sv2Vars, lruVars, bitVars>>
    /\ ses_pc = "decrypt_banks"
    /\ \E encrypted_banks \in BOOLEAN, cipher_found \in BOOLEAN, decrypt_ok \in BOOLEAN :
        /\ (keysets_result # "loaded") => ~cipher_found
        /\ meta_state' = IF ~encrypted_banks THEN "plain"
                         ELSE IF cipher_found /\ decrypt_ok THEN "decrypted"
                         ELSE "opened_encrypted"
    /\ ses_pc' = "constructed"
    /\ UNCHANGED <<cmd, hdr, slots, opt_slot, slot_idx, slots_map, best_slot_offset,
                   exit_code, message, m_meta_offset, m_ignore_errors, password_given,
                   cm_slot, banks_loaded, keysets_result, died_in>>

\* ExtractContext's constructor calls meta.read_datastore (CMeta.cpp:961-1001): an
\* invalid BlockDescriptor or an unreadable page is a log_or_die(m_ignore_errors)
ReadDatastore ==
    /\ UNCHANGED <<scanVars, metaVars, exVars, dirVars, dsVars, sv2Vars, lruVars, bitVars>>
    /\ ses_pc = "constructed"
    /\ \E found \in {"ok", "invalid BD", "failed to get page"} :
        IF found # "ok" /\ log_or_die(m_ignore_errors) = "thrown"
        THEN /\ ses_pc' = "thrown"
             /\ died_in' = [by |-> "log_or_die", msg |-> found]
        ELSE /\ ses_pc' = "loaded"
             /\ UNCHANGED died_in
    /\ UNCHANGED <<cmd, hdr, slots, opt_slot, slot_idx, slots_map, best_slot_offset,
                   exit_code, message, m_meta_offset, m_ignore_errors, password_given,
                   cm_slot, banks_loaded, keysets_result, meta_state>>

SlotNext ==
    \/ VbkScanSlot \/ VbkSelect \/ ImportSlot \/ LoadKeysets \/ DecryptBanks
    \/ ReadDatastore

(***************************************************************************)
(* CMeta::for_each_file, read_dir, process_dir_page, vLoadFile             *)
(* (src/src/core/CMeta.cpp) and SDirItemRec::valid                         *)
(***************************************************************************)
\* for(size_t i=0; i<PAGE_SIZE/sizeof(SDirItemRec); i++), sizeof(SDirItemRec) == 0xc0
DirItemsPerPage == PAGE_SIZE \div 192

\* SDirItemRec: loc is u.dir.children_loc or u.fib.blocks_loc, num is
\* u.dir.children_num or u.fib.nBlocks (fib_size being nBlocks); props_loc is empty
ZeroEntry == [type |-> 0, valid_name |-> FALSE, loc |-> PPI(0, 0), num |-> 0]
FileEntry == [type |-> FT_INT_FIB, valid_name |-> TRUE, loc |-> PPI(1, 0), num |-> 1]
ExtFibEntry == [type |-> FT_EXT_FIB, valid_name |-> TRUE, loc |-> PPI(1, 0), num |-> 1]
CorruptEntry == [type |-> FT_INT_FIB, valid_name |-> FALSE, loc |-> PPI(1, 0), num |-> 1]
DirEntry(children_loc) ==
    [type |-> FT_SUBFOLDER, valid_name |-> TRUE, loc |-> children_loc, num |-> 1]

\* the location of the root directory and of a subdirectory
RootDir == PPI(0, 0)
SubDir == PPI(0, 3)

DirEntries == {FileEntry, ExtFibEntry, CorruptEntry, DirEntry(SubDir), DirEntry(INVALID_PPI)}

\* SDirItemRec::valid() with dir_t::valid() and base_t::valid()
SDirItemRec_valid(item) ==
    /\ item.type >= FT_SUBFOLDER /\ item.type <= FT_INCREMENT
    /\ item.valid_name
    /\ CASE item.type = FT_SUBFOLDER -> valid(item.loc) /\ item.num > 0
         [] item.type = FT_INT_FIB -> item.num > 0 /\ valid(item.loc)
         [] OTHER -> TRUE

\* vLoadFile returns true for FT_INT_FIB, FT_SUBFOLDER and FT_INCREMENT
vLoadFile(item) == item.type \in {FT_INT_FIB, FT_SUBFOLDER, FT_INCREMENT}
is_dir(item) == item.type = FT_SUBFOLDER

\* the pages for_each_page enumerates: bank 0 with pages 0..3, none of them zeroed
LastPageId == SubDir.page
BankPages == {PPI(0, page_id) : page_id \in 0..LastPageId}

\* for_each_page skips a page of zeroes; the pages that hold a page stack are
\* never zeroed, a page of directory records is when it holds no record
IsEmptyPage(ppi) == ppi \notin {RootDir, SubDir} /\ dir_pages[ppi] = <<>>

SeqsUpTo(S, n) == UNION {SeqsOfLen(S, k) : k \in 0..n}

\* the records of the second directory page, and the page stacks of the two
\* directory locations
SecondPages == {<<>>, <<FileEntry>>, <<DirEntry(SubDir)>>}
RootStacks == {<<PPI(0, 1)>>, <<PPI(0, 1), PPI(0, 2)>>}
SubDirStacks == {<<>>, <<PPI(0, 2)>>, <<PPI(0, 1)>>}

\* get_page_stack(dir_ppi): empty for a location that holds no page stack
DirPageStack(dir_ppi) == IF dir_ppi \in DOMAIN dir_stacks THEN dir_stacks[dir_ppi] ELSE <<>>

ReadDirFrame(dir_ppi) ==
    [k |-> "read_dir", pages |-> DirPageStack(dir_ppi), page |-> dir_ppi, at |-> 1]
PageFrame(ppi) == [k |-> "process_dir_page", pages |-> <<>>, page |-> ppi, at |-> 1]

DirIdle ==
    /\ fe_pc = "idle"
    /\ dir_pages = [ppi \in BankPages |-> <<>>]
    /\ dir_stacks = [l \in {RootDir, SubDir} |-> <<>>]
    /\ frames = <<>> /\ visited_pages = {} /\ orphan_next = 0
    /\ reported = {} /\ parsed = [ppi \in BankPages |-> 0]

Top == frames[Len(frames)]
Advanced == [frames EXCEPT ![Len(frames)].at = @ + 1]

\* the innermost call returns; when read_dir({0, 0}) returns, for_each_file goes on
\* to for_each_page
Return ==
    /\ frames' = SubSeq(frames, 1, Len(frames) - 1)
    /\ fe_pc' = IF Len(frames) = 1 /\ fe_pc = "root" THEN "orphans" ELSE fe_pc

\* position at which the loop of process_dir_page goes on after an invalid record:
\* break leaves the loop
AfterInvalidEntry(at) == DirItemsPerPage + 1

\* for_each_file, lines 904-906: read_dir({0, 0}, cb, &visited_pages)
FefStart ==
    /\ UNCHANGED <<scanVars, metaVars, exVars, slotVars, dsVars, sv2Vars, lruVars, bitVars>>
    /\ fe_pc = "start"
    /\ visited_pages' = {}
    /\ frames' = <<ReadDirFrame(RootDir)>>
    /\ fe_pc' = "root"
    /\ UNCHANGED <<dir_pages, dir_stacks, orphan_next, reported, parsed>>

\* visited_pages->find(ppi) != visited_pages->end()
AlreadyVisited_Never(ppi) == FALSE
AlreadyVisited(ppi) == ppi \in visited_pages

\* read_dir: one iteration of for( const auto ppi : page_stack ), lines 888-898; the
\* depth of the recursion is capped at MaxDepth, which the walk never reaches
ReadDirStep ==
    /\ UNCHANGED <<scanVars, metaVars, exVars, slotVars, dsVars, sv2Vars, lruVars, bitVars>>
    /\ frames # <<>> /\ Top.k = "read_dir"
    /\ Len(frames) < MaxDepth
    /\ IF Top.at > Len(Top.pages)
       THEN Return /\ UNCHANGED <<visited_pages, parsed>>
       ELSE LET ppi == Top.pages[Top.at] IN
            /\ UNCHANGED fe_pc
            /\ IF AlreadyVisited(ppi)
               THEN frames' = Advanced /\ UNCHANGED <<visited_pages, parsed>>
               ELSE /\ visited_pages' = visited_pages \cup {ppi}
                    /\ frames' = Append(Advanced, PageFrame(ppi))
                    /\ parsed' = [parsed EXCEPT ![ppi] = @ + 1]
    /\ UNCHANGED <<dir_pages, dir_stacks, orphan_next, reported>>

\* process_dir_page: one iteration of the loop over the records, lines 851-868
DirEntryStep ==
    /\ UNCHANGED <<scanVars, metaVars, exVars, slotVars, dsVars, sv2Vars, lruVars, bitVars>>
    /\ frames # <<>> /\ Top.k = "process_dir_page"
    /\ LET items == dir_pages[Top.page]
           item == IF Top.at <= Len(items) THEN items[Top.at] ELSE ZeroEntry
       IN IF Top.at > DirItemsPerPage
          THEN Return /\ UNCHANGED reported
          ELSE IF ~SDirItemRec_valid(item)
          THEN /\ IF AfterInvalidEntry(Top.at) > DirItemsPerPage
                  THEN Return
                  ELSE /\ frames' = [frames EXCEPT ![Len(frames)].at =
                                                        AfterInvalidEntry(Top.at)]
                       /\ UNCHANGED fe_pc
               /\ UNCHANGED reported
          ELSE IF vLoadFile(item)
          THEN /\ reported' = reported \cup {[page |-> Top.page, at |-> Top.at]}
               /\ frames' = IF is_dir(item) /\ SDirItemRec_valid(item)
                            THEN Append(Advanced, ReadDirFrame(item.loc))
                            ELSE Advanced
               /\ UNCHANGED fe_pc
          ELSE frames' = Advanced /\ UNCHANGED <<reported, fe_pc>>
    /\ UNCHANGED <<dir_pages, dir_stacks, visited_pages, orphan_next, parsed>>

\* for_each_page with the callback of for_each_file, lines 909-921 and 943-959: a
\* page that is not in visited_pages is parsed; visited_pages is not updated
OrphanStep ==
    /\ UNCHANGED <<scanVars, metaVars, exVars, slotVars, dsVars, sv2Vars, lruVars, bitVars>>
    /\ fe_pc = "orphans" /\ frames = <<>>
    /\ IF orphan_next > LastPageId
       THEN fe_pc' = "done" /\ UNCHANGED <<frames, orphan_next, parsed>>
       ELSE LET ppi == PPI(0, orphan_next) IN
            /\ orphan_next' = orphan_next + 1
            /\ UNCHANGED fe_pc
            /\ IF ppi \in visited_pages \/ IsEmptyPage(ppi)
               THEN UNCHANGED <<frames, parsed>>
               ELSE /\ frames' = <<PageFrame(ppi)>>
                    /\ parsed' = [parsed EXCEPT ![ppi] = @ + 1]
    /\ UNCHANGED <<dir_pages, dir_stacks, visited_pages, reported>>

DirNext == FefStart \/ ReadDirStep \/ DirEntryStep \/ OrphanStep


(***************************************************************************)
(* CMeta::read_datastore (src/src/core/CMeta.cpp) and BlockDescriptor      *)
(* (src/src/core/structs.hpp)                                              *)
(***************************************************************************)
\* BlockDescriptor; usageCnt, unused and keysetID are zero but in AllOnesBd
Bd(location, offset, allocSize, digest, compType, compSize, srcSize) ==
    [location |-> location, offset |-> offset, allocSize |-> allocSize, dedup |-> 0,
     digest |-> digest, compType |-> compType, compSize |-> compSize,
     srcSize |-> srcSize]

\* the two images BlockDescriptor::empty() tests for: every byte 0, every byte 0xff
ZeroBd == Bd(0, 0, 0, 0, 0, 0, 0)
AllOnesBd == [location |-> 255, offset |-> 255, allocSize |-> 255, dedup |-> 255,
              digest |-> 255, compType |-> 255, compSize |-> 255, srcSize |-> 255]

BdRecords ==
    { ZeroBd, AllOnesBd,
      \* two valid records of digest 1 that differ in their offset, one of digest 2
      Bd(BL_BLOCK_IN_BLOB, 0, 2, 1, CT_LZ4, 1, 2),
      Bd(BL_BLOCK_IN_BLOB, 1, 2, 1, CT_LZ4, 1, 2),
      Bd(BL_BLOCK_IN_BLOB, 0, 2, 2, CT_NONE, 2, 2),
      \* records of digest 1 that are not valid: allocSize < compSize, location
      Bd(BL_BLOCK_IN_BLOB, 2, 1, 1, CT_LZ4, 2, 2),
      Bd(0, 3, 2, 1, CT_LZ4, 1, 2),
      \* records with a zero digest: a valid one and one that is not
      Bd(BL_BLOCK_IN_BLOB, 0, 1, 0, 0, 0, 0),
      Bd(BL_BLOCK_IN_BLOB, 0, 1, 0, CT_LZ4, 2, 2) }

VALID_COMP_TYPE(x) == x = CT_NONE \/ (x >= CT_RLE /\ x <= CT_ZSTD9)

BlockDescriptor_valid(bd) ==
    /\ bd.location = BL_BLOCK_IN_BLOB /\ bd.allocSize # 0 /\ bd.allocSize >= bd.compSize
    /\ \/ bd.digest # 0 /\ bd.compSize # 0 /\ bd.srcSize # 0 /\ VALID_COMP_TYPE(bd.compType)
       \/ bd.digest = 0 /\ bd.compSize = 0 /\ bd.srcSize = 0 /\ bd.compType = 0
            /\ bd.dedup = 0

BlockDescriptor_empty(bd) == bd = ZeroBd \/ bd = AllOnesBd

NoBds == [d \in {} |-> ZeroBd]

\* bds[bd->digest] = *bd
BdsPut(map, bd) ==
    [d \in DOMAIN map \cup {bd.digest} |-> IF d = bd.digest THEN bd ELSE map[d]]

DsIdle ==
    /\ ds_pc = "idle" /\ ds_ignore_errors = FALSE
    /\ bd_records = <<>> /\ bd_i = 0 /\ bds = NoBds

\* one iteration of the loop over the records of a page, lines 974-995
DsRecord ==
    /\ UNCHANGED <<coreVars, sv2Vars, lruVars, bitVars>>
    /\ ds_pc = "loop" /\ bd_i < Len(bd_records)
    /\ LET bd == bd_records[bd_i + 1] IN
       IF BlockDescriptor_empty(bd)
       THEN UNCHANGED <<bds, ds_pc>>
       ELSE IF BlockDescriptor_valid(bd)
       THEN /\ bds' = IF bd.digest # 0 THEN BdsPut(bds, bd) ELSE bds
            /\ UNCHANGED ds_pc
       ELSE IF log_or_die(ds_ignore_errors) = "thrown"
       THEN ds_pc' = "thrown" /\ UNCHANGED bds
       ELSE /\ bds' = IF bd.digest # 0 /\ bd.digest \notin DOMAIN bds
                      THEN BdsPut(bds, bd) ELSE bds
            /\ UNCHANGED ds_pc
    /\ bd_i' = bd_i + 1
    /\ UNCHANGED <<ds_ignore_errors, bd_records>>

\* the page stack is exhausted: return bds
DsReturn ==
    /\ UNCHANGED <<coreVars, sv2Vars, lruVars, bitVars>>
    /\ ds_pc = "loop" /\ bd_i = Len(bd_records)
    /\ ds_pc' = "returned"
    /\ UNCHANGED <<ds_ignore_errors, bd_records, bd_i, bds>>

DsNext == DsRecord \/ DsReturn

(***************************************************************************)
(* ScannerV2 (src/src/scanning/ScannerV2.cpp): check_slot, check_bank,     *)
(* guess_bank_id, finish                                                   *)
(***************************************************************************)
\* the scan runs without --carve and with no keysets dump loaded
m_carve_mode == FALSE
m_aes_ciphers == {}

\* what guess_bank_id reads of a page of the bank that is not free: next.bank_id
\* when it and next.page_id are in range, and self.bank_id when self.page_id is the
\* page's own id and the bank id is in range; -1 stands for "not so"
BankPage(next, self) == [next |-> next, self |-> self]
BankPageLists ==
    { <<>>,
      <<BankPage(0, -1), BankPage(0, -1)>>,
      <<BankPage(1, -1), BankPage(1, -1)>>,
      <<BankPage(2, -1), BankPage(2, -1)>>,
      <<BankPage(-1, 0), BankPage(-1, 3)>> }

BankFingerprints == {<<1, 1>>, <<1, 2>>, <<2, 1>>, <<3, 1>>}

\* the banks that pass valid_fast and valid_slow at a page position
BankFinds ==
    {[crc |-> f[1], size |-> f[2], pages |-> pl, encrypted |-> FALSE] :
        f \in BankFingerprints, pl \in BankPageLists}
    \cup {[crc |-> 3, size |-> 2, pages |-> <<>>, encrypted |-> TRUE]}

\* the slots that pass valid_fast at a page position: their BankInfo (crc, size)
\* entries, whether valid_crc holds, whether the banks lie at the offsets named
SlotFind(infos, crc_ok, present) ==
    [bankInfos |-> infos, valid_crc |-> crc_ok, banks_present |-> present]
SlotFinds ==
    { SlotFind(<<>>, TRUE, FALSE),
      SlotFind(<< <<1, 1>> >>, TRUE, TRUE),
      SlotFind(<< <<1, 1>>, <<2, 1>> >>, TRUE, TRUE),
      SlotFind(<< <<1, 1>> >>, FALSE, FALSE) }

\* calc_bank_id: ((uint64_t)crc << 32) | size
calc_bank_id(crc, bank_size) == <<crc, bank_size>>

\* calc_slot_fingerprint: a hash of the (crc, size) of the BankInfo entries
calc_slot_fingerprint(slot) == slot.bankInfos

\* guess_bank_id: the most frequent next.bank_id if it occurs more than once, else
\* the average of self.bank_id over the roots if there is more than one, else
\* m_current_bank_id
bank_id_freq(pages, bid) == Cardinality({i \in DOMAIN pages : pages[i].next = bid})
RECURSIVE SumSelf(_, _)
SumSelf(pages, i) ==
    IF i = 0 THEN 0
    ELSE SumSelf(pages, i - 1) + (IF pages[i].self >= 0 THEN pages[i].self ELSE 0)
guess_bank_id(pages, current) ==
    LET ids == {pages[i].next : i \in DOMAIN pages} \ {-1}
        best_freq == IF ids = {} THEN 0
                     ELSE CHOOSE f \in {bank_id_freq(pages, b) : b \in ids} :
                            \A b \in ids : bank_id_freq(pages, b) <= f
        valid_roots == Cardinality({i \in DOMAIN pages : pages[i].self >= 0})
    IN IF best_freq > 1
       THEN CHOOSE b \in ids : bank_id_freq(pages, b) = best_freq
       ELSE IF valid_roots > 1
       THEN SumSelf(pages, Len(pages)) \div valid_roots
       ELSE current

NoBankMap == [id \in {} |-> [crc |-> 0, offset |-> 0, size |-> 0]]
NoSynth == [written |-> FALSE]

Sv2Idle ==
    /\ sv_pc = "idle" /\ finds = 0
    /\ m_slots_map = {} /\ m_is_encrypted = FALSE
    /\ m_seen_bank_ids = {} /\ m_seen_slot_fingerprints = {}
    /\ m_failed_guess = FALSE /\ m_current_bank_id = 0
    /\ m_seen_bank_crcs = {} /\ m_bank_id_to_bank = NoBankMap
    /\ saved_banks = {} /\ saved_slots = {} /\ guessed = <<>>
    /\ duplicates = {} /\ synth = NoSynth

\* if (m_seen_bank_ids.count(bank_id)), lines 427 and 591
SeenBank_Never(bank_id) == FALSE
SeenBank(bank_id) == bank_id \in m_seen_bank_ids

\* if (inferred_bank_id < m_current_bank_id), line 440
GuessFailed_Never(inferred_bank_id) == FALSE
GuessFailed(inferred_bank_id) == inferred_bank_id < m_current_bank_id

\* check_bank on a bank that passes valid_fast and valid_slow; with no cipher loaded
\* an encrypted bank is not decrypted
Sv2CheckBank ==
    /\ UNCHANGED <<coreVars, dsVars, lruVars, bitVars>>
    /\ sv_pc = "scan" /\ finds < MaxFinds
    /\ finds' = finds + 1
    /\ \E bank \in BankFinds :
       LET bank_offset == finds + 1
           bank_id == calc_bank_id(bank.crc, bank.size)
           decrypted == FALSE
       IN
       /\ m_is_encrypted' = (m_is_encrypted \/ bank.encrypted)
       /\ IF SeenBank(bank_id)
          THEN /\ duplicates' = duplicates \cup {[at |-> bank_offset, what |-> "bank"]}
               /\ UNCHANGED <<m_seen_bank_ids, m_failed_guess, m_current_bank_id,
                              m_seen_bank_crcs, m_bank_id_to_bank, saved_banks, guessed>>
          ELSE /\ m_seen_bank_ids' = m_seen_bank_ids \cup {bank_id}
               /\ UNCHANGED duplicates
               /\ saved_banks' = saved_banks \cup {[id |-> bank_id, at |-> bank_offset]}
               /\ IF /\ ~m_carve_mode /\ m_slots_map = {}
                     /\ (~bank.encrypted \/ decrypted) /\ ~m_failed_guess
                     /\ bank.crc \notin m_seen_bank_crcs
                  THEN LET inferred_bank_id == guess_bank_id(bank.pages, m_current_bank_id)
                       IN /\ guessed' = Append(guessed, [id |-> inferred_bank_id,
                                                          at |-> bank_offset])
                          /\ IF GuessFailed(inferred_bank_id)
                             THEN /\ m_failed_guess' = TRUE
                                  /\ UNCHANGED <<m_current_bank_id, m_seen_bank_crcs,
                                                 m_bank_id_to_bank>>
                             ELSE /\ m_current_bank_id' = inferred_bank_id + 1
                                  /\ m_seen_bank_crcs' = m_seen_bank_crcs \cup {bank.crc}
                                  /\ m_bank_id_to_bank' =
                                       [id \in DOMAIN m_bank_id_to_bank \cup {inferred_bank_id} |->
                                          IF id = inferred_bank_id
                                          THEN [crc |-> bank.crc, offset |-> bank_offset,
                                                size |-> bank.size]
                                          ELSE m_bank_id_to_bank[id]]
                                  /\ UNCHANGED m_failed_guess
                  ELSE \* the bank is a mirror by crc, or process_bank
                       UNCHANGED <<m_failed_guess, m_current_bank_id, m_seen_bank_crcs,
                                   m_bank_id_to_bank, guessed>>
    /\ UNCHANGED <<sv_pc, m_slots_map, m_seen_slot_fingerprints, saved_slots, synth>>

\* the banks of a slot that check_slot saves: those whose fingerprint was not seen
\* before, each once (lines 573-606)
RECURSIVE SlotBanks(_, _, _)
SlotBanks(infos, i, seen) ==
    IF i > Len(infos) THEN {}
    ELSE LET bank_uid == calc_bank_id(infos[i][1], infos[i][2]) IN
         IF bank_uid \in seen
         THEN SlotBanks(infos, i + 1, seen)
         ELSE {bank_uid} \cup SlotBanks(infos, i + 1, seen \cup {bank_uid})

\* check_slot on a slot that passes valid_fast
Sv2CheckSlot ==
    /\ UNCHANGED <<coreVars, dsVars, lruVars, bitVars>>
    /\ sv_pc = "scan" /\ finds < MaxFinds
    /\ finds' = finds + 1
    /\ \E slot \in SlotFinds :
       LET slot_offset == finds + 1
           fingerprint == calc_slot_fingerprint(slot)
       IN IF ~slot.valid_crc
          THEN UNCHANGED <<m_slots_map, m_seen_slot_fingerprints, m_seen_bank_ids,
                           saved_banks, saved_slots, duplicates>>
          ELSE IF fingerprint \in m_seen_slot_fingerprints
          THEN /\ duplicates' = duplicates \cup {[at |-> slot_offset, what |-> "slot"]}
               /\ UNCHANGED <<m_slots_map, m_seen_slot_fingerprints, m_seen_bank_ids,
                              saved_banks, saved_slots>>
          ELSE LET new == IF slot.banks_present
                          THEN SlotBanks(slot.bankInfos, 1, m_seen_bank_ids)
                          ELSE {}
               IN /\ m_seen_slot_fingerprints' = m_seen_slot_fingerprints \cup {fingerprint}
                  /\ saved_slots' = saved_slots \cup {[id |-> fingerprint, at |-> slot_offset]}
                  /\ m_slots_map' = m_slots_map \cup {slot_offset}
                  /\ m_seen_bank_ids' = m_seen_bank_ids \cup new
                  /\ saved_banks' = saved_banks \cup
                                      {[id |-> bank_uid, at |-> slot_offset] : bank_uid \in new}
                  /\ UNCHANGED duplicates
    /\ UNCHANGED <<sv_pc, m_is_encrypted, m_failed_guess, m_current_bank_id,
                   m_seen_bank_crcs, m_bank_id_to_bank, guessed, synth>>

\* vcrc32 is not part of the sources: it is taken as a checksum that tells apart two
\* byte ranges that differ in their length or in their content (content: a number
\* below 2^8 that stands for the bytes), and that is never 0 on them
vcrc32(content, len) == 1 + content + 256 * len

RECURSIVE SumSizes(_, _)
SumSizes(map, ids) ==
    IF ids = {} THEN 0
    ELSE LET id == CHOOSE x \in ids : TRUE IN map[id].size + SumSizes(map, ids \ {id})

\* finish, lines 244-333: the slot that is built and written with its banks
SynthSlot ==
    LET max_banks == 32512
        allocated_banks ==
            (CHOOSE id \in DOMAIN m_bank_id_to_bank :
                \A other \in DOMAIN m_bank_id_to_bank : other <= id) + 1
        synth_size == SizeofCSlot + max_banks * SizeofBankInfo
        \* off_t current_offset = slot_size, advanced by the size of each bank in the
        \* order of the ids
        offset(bank_id) ==
            synth_size + SumSizes(m_bank_id_to_bank,
                                  {id \in DOMAIN m_bank_id_to_bank : id < bank_id})
    IN [written |-> TRUE,
        \* slot->crc = vcrc32(0, slot + sizeof(uint32_t), slot_size - sizeof(uint32_t))
        crc |-> vcrc32(allocated_banks, synth_size - 4),
        \* what valid_crc computes on the file: vcrc32(0, &has_snapshot, size() - 8)
        vcrc |-> vcrc32(allocated_banks, synth_size - 8),
        has_snapshot |-> 1,
        max_banks |-> max_banks,
        allocated_banks |-> allocated_banks,
        bankInfos |-> [id \in 0..(allocated_banks - 1) |->
                         IF id \in DOMAIN m_bank_id_to_bank
                         THEN [crc |-> m_bank_id_to_bank[id].crc, offset |-> offset(id),
                               size |-> m_bank_id_to_bank[id].size]
                         ELSE [crc |-> 0, offset |-> 0, size |-> 0]],
        \* the banks appended to the file, by the offset they are written at
        file_banks |-> {[offset |-> offset(id),
                         bank |-> calc_bank_id(m_bank_id_to_bank[id].crc,
                                               m_bank_id_to_bank[id].size)] :
                            id \in DOMAIN m_bank_id_to_bank}]

\* the scan has gone through the container: finish
Sv2Finish ==
    /\ UNCHANGED <<coreVars, dsVars, lruVars, bitVars>>
    /\ sv_pc = "scan"
    /\ sv_pc' = "finished"
    /\ synth' = IF /\ ~m_carve_mode /\ m_slots_map = {}
                   /\ Cardinality(DOMAIN m_bank_id_to_bank) > 1 /\ ~m_failed_guess
                THEN SynthSlot
                ELSE NoSynth
    /\ UNCHANGED <<finds, m_slots_map, m_is_encrypted, m_seen_bank_ids,
                   m_seen_slot_fingerprints, m_failed_guess, m_current_bank_id,
                   m_seen_bank_crcs, m_bank_id_to_bank, saved_banks, saved_slots,
                   guessed, duplicates>>

\* CMeta::import_slot on the written file, lines 145-157: the bank read into
\* m_banks[i], none for a BankInfo of size 0
ImportedBank(slot, i) ==
    IF slot.bankInfos[i].size = 0 THEN <<>>
    ELSE LET at == {f \in slot.file_banks : f.offset = slot.bankInfos[i].offset} IN
         IF at = {} THEN <<>> ELSE (CHOOSE f \in at : TRUE).bank

Sv2Next == Sv2CheckBank \/ Sv2CheckSlot \/ Sv2Finish

(***************************************************************************)
(* lru_set (src/src/data/lru_set.hpp)                                      *)
(***************************************************************************)
\* one key more than the largest capacity, so that a full set meets a new key
LruKeys == 1..(MaxCapacity + 1)

NoOp == [kind |-> "-", key |-> 0, found |-> FALSE]

LruIdle ==
    /\ _capacity = 0 /\ _list = <<>> /\ _map = {} /\ lru_ops = 0 /\ lru_op = NoOp

\* the list without the element at position i
Without(list, i) == SubSeq(list, 1, i - 1) \o SubSeq(list, i + 1, Len(list))

\* _list.splice(_list.begin(), _list, it->second): the node of key moves to the front
Splice_Stay(list, key) == list
Splice(list, key) ==
    LET i == CHOOSE n \in 1..Len(list) : list[n] = key IN <<key>> \o Without(list, i)

\* bool contains(const key_type& key)
LruContains ==
    /\ UNCHANGED <<coreVars, dsVars, sv2Vars, bitVars>>
    /\ lru_ops < MaxOps
    /\ \E key \in LruKeys :
        /\ lru_op' = [kind |-> "contains", key |-> key, found |-> key \in _map]
        /\ _list' = IF key \in _map THEN Splice(_list, key) ELSE _list
    /\ lru_ops' = lru_ops + 1
    /\ UNCHANGED <<_capacity, _map>>

\* void insert(const key_type& key)
LruInsert ==
    /\ UNCHANGED <<coreVars, dsVars, sv2Vars, bitVars>>
    /\ lru_ops < MaxOps
    /\ \E key \in LruKeys :
        /\ lru_op' = [kind |-> "insert", key |-> key, found |-> key \in _map]
        /\ IF key \in _map
           THEN _list' = Splice(_list, key) /\ UNCHANGED _map
           ELSE LET full == Cardinality(_map) >= _capacity
                    lru_key == _list[Len(_list)]
                    kept == IF full THEN SubSeq(_list, 1, Len(_list) - 1) ELSE _list
                IN /\ _list' = <<key>> \o kept
                   /\ _map' = (IF full THEN _map \ {lru_key} ELSE _map) \cup {key}
    /\ lru_ops' = lru_ops + 1
    /\ UNCHANGED _capacity

LruNext == LruContains \/ LruInsert

(***************************************************************************)
(* BitFileMappedArray (src/src/data/BitFileMappedArray.hpp)                *)
(***************************************************************************)
\* bit k of a byte, and the bitwise operations on bytes
BitAt(b, k) == (b \div (2 ^ k)) % 2
RECURSIVE ByteOrFrom(_, _, _)
ByteOrFrom(a, m, k) ==
    IF k > 7 THEN 0
    ELSE (IF BitAt(a, k) = 1 \/ BitAt(m, k) = 1 THEN 2 ^ k ELSE 0) + ByteOrFrom(a, m, k + 1)
ByteOr(a, m) == ByteOrFrom(a, m, 0)
ByteClear(a, k) == a - BitAt(a, k) * (2 ^ k)

\* the low 8 bits of 1u << n for a shift count below 32
Shl1Low8(n) == IF n >= 8 THEN 0 ELSE 2 ^ n

\* the low 8 bits of 1u << n for the size_t n of Case 1: a count of 32 or more (a
\* wrapped difference) is undefined; the builds take the count modulo 32 or give 0
Shl1Case1(n) == IF n >= 0 THEN {Shl1Low8(n)} ELSE {Shl1Low8(32 + n), 0}

\* size_bytes()
size_bytes(bit_count) == (bit_count + 7) \div 8

BitIdle ==
    /\ m_bit_size = 0 /\ m_mmap = <<>> /\ bit_ops = 0
    /\ bit_op = [kind |-> "-", start |-> 0, end |-> 0, thrown |-> FALSE]

\* bool get(size_t index) const, for index < m_bit_size
get(bytes, index) == BitAt(bytes[(index \div 8) + 1], 7 - (index % 8)) = 1

\* void set(size_t index, bool value)
BitSet ==
    /\ UNCHANGED <<coreVars, dsVars, sv2Vars, lruVars>>
    /\ bit_ops < MaxBitOps
    /\ bit_ops' = bit_ops + 1
    /\ \E index \in 0..m_bit_size, value \in BOOLEAN :
        /\ bit_op' = [kind |-> IF value THEN "set" ELSE "clear", start |-> index,
                      end |-> index + 1, thrown |-> index >= m_bit_size]
        /\ IF index >= m_bit_size
           THEN UNCHANGED m_mmap
           ELSE LET byte == index \div 8
                    bit == 7 - (index % 8)
                IN m_mmap' = [m_mmap EXCEPT ![byte + 1] =
                                IF value THEN ByteOr(@, 2 ^ bit) ELSE ByteClear(@, bit)]
    /\ UNCHANGED m_bit_size

\* the bytes set_range leaves, Cases 2 to 4, for start_byte # end_byte
SetRangeBytes(bytes, start_byte, end_byte, start_bit, end_bit) ==
    LET first_partial == start_bit # 0
        from_byte == IF first_partial THEN start_byte + 1 ELSE start_byte
    IN [k \in DOMAIN bytes |->
          IF k - 1 = start_byte /\ first_partial
          THEN ByteOr(bytes[k], (255 * (2 ^ start_bit)) % 256)
          ELSE IF k - 1 >= from_byte /\ k - 1 < end_byte
          THEN 255
          ELSE IF k - 1 = end_byte
          THEN ByteOr(bytes[k], (Shl1Low8(end_bit + 1) + 255) % 256)
          ELSE bytes[k]]

\* void set_range(size_t start, size_t end)
BitSetRange ==
    /\ UNCHANGED <<coreVars, dsVars, sv2Vars, lruVars>>
    /\ bit_ops < MaxBitOps
    /\ bit_ops' = bit_ops + 1
    /\ \E start \in 0..m_bit_size, end \in 0..(m_bit_size + 1) :
       LET invalid == start >= m_bit_size \/ end > m_bit_size \/ start >= end
           start_byte == start \div 8
           end_byte == (end - 1) \div 8
           start_bit == 7 - (start % 8)
           end_bit == 7 - ((end - 1) % 8)
       IN /\ bit_op' = [kind |-> "set_range", start |-> start, end |-> end,
                        thrown |-> invalid]
          /\ IF invalid
             THEN UNCHANGED m_mmap
             ELSE IF start_byte = end_byte
             THEN \E shifted \in Shl1Case1(end_bit - start_bit + 1) :
                     m_mmap' = [m_mmap EXCEPT ![start_byte + 1] =
                                  ByteOr(@, (((shifted + 255) % 256) * (2 ^ start_bit)) % 256)]
             ELSE m_mmap' = SetRangeBytes(m_mmap, start_byte, end_byte, start_bit, end_bit)
    /\ UNCHANGED m_bit_size

BitNext == BitSet \/ BitSetRange

(***************************************************************************)
(* Specifications: one per component, the other components idle            *)
(***************************************************************************)
\* State after the constructor and start(): both threads spawned, scan() in join().
ScanInit ==
    /\ MetaIdle /\ ExIdle /\ SlotIdle /\ DirIdle
    /\ DsIdle /\ Sv2Idle /\ LruIdle /\ BitIdle
    /\ size \in 0..MaxFileSize
    /\ m_start \in 0..MaxStart
    /\ g_force \in BOOLEAN
    /\ rd_pc = "loop" /\ sc_pc = "loop" /\ main_pc = "join"
    /\ mutex = "free"
    /\ m_buf_ready = [i \in 0..1 |-> FALSE]
    /\ m_offsets = [i \in 0..1 |-> 0]
    /\ m_buf_len = [i \in 0..1 |-> m_block_size]
    /\ m_done = FALSE
    /\ rd_idx = 0 /\ sc_idx = 0
    /\ pos = m_start
    /\ filled = <<>> /\ processed = <<>>

ScanSpec == ScanInit /\ [][ScanNext]_vars

\* Each thread that can take a step of its own eventually takes one; a spurious
\* wake-up is never guaranteed.
FairScan ==
    /\ ScanInit /\ [][ScanNext]_vars
    /\ WF_vars(ReaderStep)
    /\ WF_vars(ScannerStep)
    /\ WF_vars(Main_Join)

\* State after the CMeta constructor: the banks are loaded (import_bank and
\* import_slot take the buffer size from the file or from the slot's BankInfo)
MetaInit ==
    /\ ScanIdle /\ ExIdle /\ SlotIdle /\ DirIdle
    /\ DsIdle /\ Sv2Idle /\ LruIdle /\ BitIdle
    /\ m_banks \in {<<>>} \cup {<<s>> : s \in BankSizes}
    /\ bank_data = [k \in PageKeys |-> Unread]
    /\ gp_ppi = INVALID_PPI /\ gp_result = FALSE /\ gp_dst_len = 0 /\ gp_copy_end = 0
    /\ gps_pc = "idle" /\ ppi0 = INVALID_PPI /\ gps_ppi = INVALID_PPI
    /\ first_page = TRUE /\ visited_index_pages = {}
    /\ m_pageTables = <<>> /\ stack_pages = <<>> /\ m_pageIds = <<>>
    /\ m_finalized = FALSE /\ gps_iters = 0

MetaSpec == MetaInit /\ [][MetaNext]_vars

\* process_file is entered for a file that matches the selection, without resume
\* (blocks_to_skip = 0); the Writer, if any, is at position 0
ExInit ==
    /\ ScanIdle /\ MetaIdle /\ SlotIdle /\ DirIdle
    /\ DsIdle /\ Sv2Idle /\ LruIdle /\ BitIdle
    /\ ex_pc = "gfb"
    /\ vFile \in [type : FileTypes, nBlocks : 1..MaxNBlocks, filesize : FileSizes]
    /\ test_only \in BOOLEAN
    /\ vAllB = <<>> /\ gfb = GfbIdle
    /\ blk_i = 0 /\ fti = NoCounters
    /\ remaining_size = 0 /\ actual_written = 0 /\ tell = 0
    /\ lz4_written = {} /\ sum_len = 0 /\ plain = TRUE
    /\ written_at = {} /\ missing_keyset = 0

ExtractSpec == ExInit /\ [][ExNext]_vars

\* a "vbk" session on a container, or an "md" session on a slot file
SlotInit ==
    /\ ScanIdle /\ MetaIdle /\ ExIdle /\ DirIdle
    /\ DsIdle /\ Sv2Idle /\ LruIdle /\ BitIdle
    /\ cmd \in {"vbk", "md"}
    /\ IF cmd = "vbk"
       THEN /\ hdr \in Headers
            /\ slots \in [0..(MAX_SLOTS - 1) -> SlotRecs]
            /\ opt_slot \in -1..(MAX_SLOTS - 1)
            /\ ses_pc = "vbk_scan"
            /\ m_meta_offset = -1
       ELSE /\ hdr = [valid |-> FALSE, slot_fmt |-> 0]
            /\ \E slot \in SlotRecs :
                 slots = [k \in 0..(MAX_SLOTS - 1) |-> IF k = 0 THEN slot ELSE ZeroSlot]
            /\ opt_slot = -1
            /\ ses_pc = "create_meta"
            /\ m_meta_offset = 0
    /\ slot_idx = 0 /\ slots_map = NoMap /\ best_slot_offset = 0
    /\ exit_code = -1 /\ message = ""
    /\ m_ignore_errors = FALSE /\ password_given = FALSE
    /\ cm_slot = ZeroSlot /\ banks_loaded = FALSE
    /\ keysets_result = "-" /\ died_in = NoDeath /\ meta_state = "-"

SlotSpec == SlotInit /\ [][SlotNext]_vars

\* for_each_file is about to run on a bank of four pages: page 0 holds the page
\* stack of the root directory, page 3 that of a subdirectory, pages 1 and 2 hold
\* directory records
DirInit ==
    /\ ScanIdle /\ MetaIdle /\ ExIdle /\ SlotIdle
    /\ DsIdle /\ Sv2Idle /\ LruIdle /\ BitIdle
    /\ fe_pc = "start"
    /\ \E first \in SeqsUpTo(DirEntries, MaxEntries), second \in SecondPages :
         dir_pages = [ppi \in BankPages |->
                        IF ppi = PPI(0, 1) THEN first
                        ELSE IF ppi = PPI(0, 2) THEN second ELSE <<>>]
    /\ \E root \in RootStacks, sub \in SubDirStacks :
         dir_stacks = [l \in {RootDir, SubDir} |-> IF l = RootDir THEN root ELSE sub]
    /\ frames = <<>> /\ visited_pages = {} /\ orphan_next = 0
    /\ reported = {} /\ parsed = [ppi \in BankPages |-> 0]

DirSpec == DirInit /\ [][DirNext]_vars

\* for_each_file runs on one thread, which always takes its next step
FairDir == DirSpec /\ WF_vars(DirNext)

\* read_datastore is about to run on a datastore of up to MaxRecords records, all of
\* whose pages get_page returns
DsInit ==
    /\ ScanIdle /\ MetaIdle /\ ExIdle /\ SlotIdle /\ DirIdle
    /\ Sv2Idle /\ LruIdle /\ BitIdle
    /\ ds_pc = "loop"
    /\ ds_ignore_errors \in BOOLEAN
    /\ bd_records \in SeqsUpTo(BdRecords, MaxRecords)
    /\ bd_i = 0 /\ bds = NoBds

DsSpec == DsInit /\ [][DsNext]_vars

\* ScannerV2 is about to scan a container
Sv2Init ==
    /\ ScanIdle /\ MetaIdle /\ ExIdle /\ SlotIdle /\ DirIdle
    /\ DsIdle /\ LruIdle /\ BitIdle
    /\ sv_pc = "scan" /\ finds = 0
    /\ m_slots_map = {} /\ m_is_encrypted = FALSE
    /\ m_seen_bank_ids = {} /\ m_seen_slot_fingerprints = {}
    /\ m_failed_guess = FALSE /\ m_current_bank_id = 0
    /\ m_seen_bank_crcs = {} /\ m_bank_id_to_bank = NoBankMap
    /\ saved_banks = {} /\ saved_slots = {} /\ guessed = <<>>
    /\ duplicates = {} /\ synth = NoSynth

Sv2Spec == Sv2Init /\ [][Sv2Next]_vars

\* an empty lru_set of a capacity of at least one key, as every lru_set the
\* repository constructs (MDCommand.hpp:43, lru_set_test.cpp:8)
LruInit ==
    /\ ScanIdle /\ MetaIdle /\ ExIdle /\ SlotIdle /\ DirIdle
    /\ DsIdle /\ Sv2Idle /\ BitIdle
    /\ _capacity \in 1..MaxCapacity
    /\ _list = <<>> /\ _map = {} /\ lru_ops = 0 /\ lru_op = NoOp

LruSpec == LruInit /\ [][LruNext]_vars

\* the bytes a bitmap file starts with
InitialBytes == {0, 165}

\* a BitFileMappedArray over a file of size_bytes() bytes
BitInit ==
    /\ ScanIdle /\ MetaIdle /\ ExIdle /\ SlotIdle /\ DirIdle
    /\ DsIdle /\ Sv2Idle /\ LruIdle
    /\ m_bit_size \in (MaxBits - 2)..MaxBits
    /\ m_mmap \in [1..size_bytes(m_bit_size) -> InitialBytes]
    /\ bit_ops = 0
    /\ bit_op = [kind |-> "-", start |-> 0, end |-> 0, thrown |-> FALSE]

BitSpec == BitInit /\ [][BitNext]_vars

(***************************************************************************)
(* Properties of the page cache and of the page stack                      *)
(***************************************************************************)
NoDuplicates(s) == \A i, j \in 1..Len(s) : s[i] = s[j] => i = j

\* The loop of get_page_stack adds one new page per iteration that does not leave
\* it, so it holds no page twice and leaves at the first page seen before.
CycleGuardHolds ==
    /\ NoDuplicates(stack_pages)
    /\ visited_index_pages = {stack_pages[i] : i \in 1..Len(stack_pages)}
    /\ (gps_pc = "loop" => gps_iters = Len(stack_pages))
    /\ gps_iters <= Len(stack_pages) + 1
    /\ (gps_pc = "done" => m_finalized)

\* C2: get_page_stack terminates for any bank contents: within one iteration per
\* distinct page plus one it has returned the finalized stack, which holds no index
\* page twice; the call never ends otherwise than by returning the stack.
C2_PageStackAlwaysReturns ==
    /\ CycleGuardHolds
    /\ gps_iters <= Cardinality(PageKeys) + 1
    /\ gps_pc \in {"idle", "loop", "done"}

\* C6: get_page(ppi) returns a page only if the bank is loaded and the PAGE_SIZE
\* bytes at (page_id+1)*PAGE_SIZE lie wholly inside the bank buffer; otherwise it
\* fails and copies nothing.
C6_PageWhollyInsideBank ==
    /\ gp_result => /\ BankLoaded(gp_ppi)
                    /\ gp_copy_end = PageOffset(gp_ppi) + PAGE_SIZE
                    /\ gp_copy_end <= m_banks[gp_ppi.bank + 1]
    /\ ~gp_result => gp_dst_len = 0 /\ gp_copy_end = 0

\* C7 as stated: every finalized page stack has a non-empty page list and every
\* entry of the list is a valid PhysPageId.
C7_FinalizedAllValid ==
    m_finalized =>
        /\ m_pageIds # <<>>
        /\ \A i \in 1..Len(m_pageIds) : valid(m_pageIds[i])

\* C7 amended: a finalized page list has no invalid entry at its end: it is empty or
\* its last entry is a valid PhysPageId, and each entry is the id the index pages
\* hold for it.
C7_FinalizedTrimmed ==
    m_finalized =>
        /\ m_pageIds = <<>> \/ valid(m_pageIds[Len(m_pageIds)])
        /\ Len(m_pageIds) <= PPIS_PER_PAGE * Len(m_pageTables)
        /\ \A i \in 1..Len(m_pageIds) : m_pageIds[i] = CopiedId(m_pageTables, i - 1)

\* a finalized list with an invalid entry between two valid ones
C7_Witness ==
    /\ m_finalized
    /\ Len(m_pageIds) = 3
    /\ valid(m_pageIds[1]) /\ ~valid(m_pageIds[2]) /\ valid(m_pageIds[3])
    /\ Len(m_pageTables) >= 2


(***************************************************************************)
(* Properties of process_file                                              *)
(***************************************************************************)
ErrorCounters == {"nMissMD", "nMissHT", "nErrDecomp", "nErrCRC", "nReadErr"}

\* C1: no failure of an individual block propagates out of the per-block loop:
\* process_file never ends by an exception, and when it ends every block of the
\* block list has been visited.
C1_NoBlockFailurePropagates ==
    /\ ex_pc # "thrown"
    /\ (ex_pc = "done" => blk_i = Len(vAllB))

\* C8: every LZ4 block whose decompressed bytes were written to the output file
\* decompressed to exactly srcSize bytes whose vcrc32 is the CRC of its header.
C8_WrittenLz4Verified ==
    \A checks \in lz4_written : checks.lz4res_ok /\ checks.crc_ok

\* C9: the block list used for extraction has at most attribs.nBlocks entries and
\* nMissMD equals attribs.nBlocks minus the length of the list.
C9_BlockListWithinNBlocks ==
    ex_pc \in {"loop", "long_list", "done", "thrown"} =>
        /\ Len(vAllB) <= vFile.nBlocks
        /\ fti.nMissMD = vFile.nBlocks - Len(vAllB)

C11_PatchBlocksAtVibOffset ==
    is_diff(vFile) =>
        \A w \in written_at : w.pos = w.vib_offset * BLOCK_SIZE

\* C12: a block whose keyset has no cipher is skipped, nothing being written for
\* it, and one of the miss counters of the file's statistics is incremented.
C12_MissingKeysetCounted ==
    [][missing_keyset' = missing_keyset + 1 =>
          /\ actual_written' = actual_written
          /\ fti'.nMissMD + fti'.nMissHT = fti.nMissMD + fti.nMissHT + 1]_vars

(***************************************************************************)
(* Properties of the slot selection and of the construction of CMeta       *)
(***************************************************************************)
\* the slots of the container that pass the validation of VBKCommand::run
AcceptedSlots == {k \in 0..(MAX_SLOTS - 1) : SlotAccepted(slots[k])}
Selected == ses_pc \notin {"idle", "vbk_scan", "vbk_select"}

\* C13 as stated: if exactly one of the two slots of the container is valid, the
\* session proceeds with that slot as its metadata source, whichever it is.
C13_OneValidSlotIsUsed ==
    (cmd = "vbk" /\ Selected /\ Cardinality(AcceptedSlots) = 1) =>
        \A k \in AcceptedSlots :
            /\ ses_pc # "exit"
            /\ m_meta_offset = SlotOffset(k)

\* C13: if exactly one of the two slots is valid, was examined (--slot does not
\* name the other one) and at least one of its banks is valid, MDCommand runs with
\* the offset of that slot and CMeta imports that slot, whichever of the two it is.
C13_OneUsableSlotIsUsed ==
    (cmd = "vbk" /\ Selected /\ Cardinality(AcceptedSlots) = 1) =>
        \A k \in AcceptedSlots :
            (/\ SlotOffset(k) \in DOMAIN slots_map
             /\ Score(slots_map[SlotOffset(k)]) > 0)
            => /\ ses_pc # "exit" /\ exit_code = -1
               /\ m_meta_offset = SlotOffset(k)
               /\ ses_pc # "create_meta" => cm_slot = slots[k]

\* slot 0 is not valid, slot 1 is, and CMeta has imported slot 1
C13_Witness ==
    /\ cmd = "vbk" /\ AcceptedSlots = {1}
    /\ slots[0].crc = 0 /\ slots[0].has_snapshot = 0
    /\ ses_pc = "constructed" /\ banks_loaded
    /\ m_meta_offset = SlotOffset(1) /\ cm_slot = slots[1]

\* C14: if no slot of the container passes validation, the session ends with exit
\* code 1 and the message "no valid slots found"; MDCommand is not run, so no
\* metadata is loaded and no file is extracted.
C14_NoValidSlotEndsSession ==
    (cmd = "vbk" /\ AcceptedSlots = {}) =>
        /\ ses_pc \in {"vbk_scan", "vbk_select", "exit"}
        /\ m_meta_offset = -1 /\ ~banks_loaded /\ meta_state = "-"
        /\ IF ses_pc = "exit"
           THEN exit_code = 1 /\ message = "no valid slots found"
           ELSE exit_code = -1 /\ message = ""

C14_Witness ==
    /\ cmd = "vbk" /\ AcceptedSlots = {} /\ opt_slot = -1
    /\ \E k \in 0..(MAX_SLOTS - 1) : CSlot_valid_fast(slots[k])
    /\ ses_pc = "exit" /\ exit_code = 1

\* C15: every slot from which CMeta loads banks satisfies valid_crc and
\* allocated_banks <= max_banks <= MAX_BANKS.
C15_LoadedSlotIsValid ==
    banks_loaded =>
        /\ CSlot_valid_crc(cm_slot)
        /\ cm_slot.allocated_banks <= cm_slot.max_banks
        /\ cm_slot.max_banks <= MAX_BANKS

\* C16: when load_keysets_from_bank fails for a slot with a valid
\* CryptoStoreRootPage, the construction of CMeta still completes and leaves the
\* metadata opened_encrypted.
C16_KeysetFailureOpensEncrypted ==
    keysets_result = "failed" =>
        /\ ses_pc # "thrown"
        /\ ses_pc \in {"constructed", "loaded"} => meta_state = "opened_encrypted"

\* C17: with the force switch on, no log_or_die assertion of CMeta throws.
C17_ForceNeverDies ==
    m_ignore_errors => died_in.by # "log_or_die"

\* the reader thread is inside m_reader.read_at on one buffer while the scanner
\* thread is inside process_buf on the other
Overlap == rd_pc = "read" /\ sc_pc = "process" /\ sc_idx = 1 - rd_idx

\* C30: the two buffers give real double buffering: while the reader thread is
\* filling one buffer and the other buffer is ready and next in the scanner's turn,
\* the scanner thread is processing that buffer or is able to take its next step
\* towards it
C30_ScannerRunsWhileReaderFills ==
    ( /\ rd_pc = "read"
      /\ m_buf_ready[1 - rd_idx] /\ sc_idx = 1 - rd_idx
      /\ sc_pc \notin {"finished", "terminated"} )
    => Overlap \/ ENABLED ScannerStep

\* C30, the states the claim says exist: in no reachable state is the reader
\* thread filling a buffer while the scanner thread is processing one
C30_NeverOverlap == ~(rd_pc = "read" /\ sc_pc = "process")

\* C29: when process_file has gone through the block list, the six counters
\* sparse_blocks, nOK, nMissHT, nErrDecomp, nErrCRC and nReadErr sum to the length
\* of the block list
C29_CountersSumToBlocks ==
    ex_pc = "done" =>
        fti.sparse_blocks + fti.nOK + fti.nMissHT + fti.nErrDecomp + fti.nErrCRC
            + fti.nReadErr = Len(vAllB)

(***************************************************************************)
(* Properties of ScannerV2                                                 *)
(***************************************************************************)
\* the highest inferred id
MaxBankId ==
    CHOOSE id \in DOMAIN m_bank_id_to_bank : \A other \in DOMAIN m_bank_id_to_bank : other <= id

\* what holds of every slot file finish writes, its checksum apart
SynthSlotShape ==
    /\ synth.max_banks = 32512
    /\ synth.allocated_banks = MaxBankId + 1
    /\ \A id \in DOMAIN m_bank_id_to_bank :
          ImportedBank(synth, id) = calc_bank_id(m_bank_id_to_bank[id].crc,
                                                 m_bank_id_to_bank[id].size)

\* C24: the slot file written by finish is a good slot when read back: max_banks is
\* 0x7F00, allocated_banks is the highest inferred id plus one, valid_fast and
\* valid_crc hold, and import_slot finds each located bank at the index of its id
C24_SynthSlotIsGood ==
    synth.written =>
        /\ SynthSlotShape
        /\ CSlot_valid_fast(synth) /\ CSlot_valid_crc(synth)

\* C24, the checksum apart: the slot file written by finish has the stated
\* max_banks and allocated_banks, passes valid_fast and holds each bank at its id
C24_SynthSlotGoodButCrc == synth.written => SynthSlotShape /\ CSlot_valid_fast(synth)

\* the id guessed for the j-th bank is lower than the id guessed for an earlier one
Decreased(j) == \E i \in 1..(j - 1) : guessed[j].id < guessed[i].id

\* C25: once the id inferred for a bank is lower than the id inferred for an earlier
\* bank, no id is inferred for a later bank, no bank met from then on is given an
\* id, and finish writes no slot
C25_InferenceAbandoned ==
    \A j \in DOMAIN guessed :
        Decreased(j) =>
            /\ j = Len(guessed)
            /\ \A id \in DOMAIN m_bank_id_to_bank :
                  m_bank_id_to_bank[id].offset < guessed[j].at
            /\ ~synth.written

\* the scan has finished; the id guessed for the second bank was lower than that of
\* the first, and a third, new bank was met and saved after it
C25_Witness ==
    /\ sv_pc = "finished"
    /\ Len(guessed) = 2 /\ Decreased(2)
    /\ \E b \in saved_banks : b.at > guessed[2].at
    /\ DOMAIN m_bank_id_to_bank # {}

\* C26: each bank fingerprint and each slot fingerprint is saved at most once during
\* the scan, and every saved fingerprint is recorded as seen
C26_SavedAtMostOnce ==
    /\ \A a, b \in saved_banks : a.id = b.id => a = b
    /\ \A a, b \in saved_slots : a.id = b.id => a = b
    /\ \A a \in saved_banks : a.id \in m_seen_bank_ids
    /\ \A a \in saved_slots : a.id \in m_seen_slot_fingerprints

\* the scan has finished; a bank and a slot were each met a second time and
\* skipped, and each is saved once
C26_Witness ==
    /\ sv_pc = "finished"
    /\ \E d \in duplicates : d.what = "bank"
    /\ \E d \in duplicates : d.what = "slot"
    /\ Cardinality(saved_banks) = 1 /\ Cardinality(saved_slots) = 1

(***************************************************************************)
(* Properties of lru_set                                                   *)
(***************************************************************************)
Elements(list) == {list[i] : i \in DOMAIN list}

\* C27: in every call on an lru_set of capacity C the set holds at most C keys
\* afterwards; contains(k) on a present key returns true and leaves k the most
\* recently used, the order of the other keys unchanged; insert of a new key into a
\* full set removes the least recently used key and no other
C27_LruSetContract ==
    [][ lru_ops' = lru_ops + 1 =>
          /\ Len(_list') <= _capacity /\ Cardinality(_map') <= _capacity
          /\ Elements(_list') = _map' /\ Len(_list') = Cardinality(_map')
          /\ (lru_op'.kind = "contains" /\ lru_op'.key \in _map) =>
                /\ lru_op'.found
                /\ _list'[1] = lru_op'.key
                /\ _map' = _map
                /\ \A i, j \in DOMAIN _list :
                      (i < j /\ _list[i] # lru_op'.key /\ _list[j] # lru_op'.key) =>
                      \E m, n \in DOMAIN _list' :
                          m < n /\ _list'[m] = _list[i] /\ _list'[n] = _list[j]
          /\ (lru_op'.kind = "contains" /\ lru_op'.key \notin _map) =>
                ~lru_op'.found /\ _list' = _list
          /\ (lru_op'.kind = "insert" /\ lru_op'.key \notin _map
                /\ Cardinality(_map) = _capacity) =>
                /\ _map' = (_map \ {_list[Len(_list)]}) \cup {lru_op'.key}
                /\ _list'[1] = lru_op'.key
      ]_vars

\* the scenario of ContainsPromotesKey: a set of capacity 3 was filled with keys 1,
\* 2 and 3, contains(1) promoted key 1, and insert(4) evicted key 2
C27_Witness ==
    /\ _capacity = 3 /\ lru_ops = 5
    /\ lru_op = [kind |-> "insert", key |-> 4, found |-> FALSE]
    /\ _list = <<4, 1, 3>>

(***************************************************************************)
(* Properties of BitFileMappedArray                                        *)
(***************************************************************************)
\* C28: a call of set_range(start, end) that does not throw leaves, as read by get,
\* every bit with start <= index < end set and every other bit as it was
C28_SetRangeExact ==
    [][ (bit_ops' = bit_ops + 1 /\ bit_op'.kind = "set_range" /\ ~bit_op'.thrown) =>
          \A index \in 0..(m_bit_size - 1) :
              get(m_mmap', index) =
                  IF index >= bit_op'.start /\ index < bit_op'.end
                  THEN TRUE ELSE get(m_mmap, index)
      ]_vars

\* C28, for a range of one bit: set_range(start, start + 1) sets the bit start and
\* leaves every other bit as it was
C28_SetRangeOfOneBit ==
    [][ (bit_ops' = bit_ops + 1 /\ bit_op'.kind = "set_range" /\ ~bit_op'.thrown
            /\ bit_op'.end = bit_op'.start + 1) =>
          \A index \in 0..(m_bit_size - 1) :
              get(m_mmap', index) =
                  IF index = bit_op'.start THEN TRUE ELSE get(m_mmap, index)
      ]_vars

(***************************************************************************)
(* Properties of read_datastore                                            *)
(***************************************************************************)
\* C22: an entry of bds is replaced by a record of different bytes only if the
\* entry was not valid: a valid record of the map is never overwritten
C22_ValidNeverOverwritten ==
    [][\A d \in DOMAIN bds : bds'[d] # bds[d] => ~BlockDescriptor_valid(bds[d])]_vars

\* C23: every descriptor of the map read_datastore returns has allocSize >= compSize
\* and a non-zero digest or only zero fields, with and without ignore_errors
C23_ReturnedDescriptorsSound ==
    ds_pc = "returned" =>
        \A d \in DOMAIN bds :
            /\ bds[d].allocSize >= bds[d].compSize
            /\ bds[d].digest # 0 \/ bds[d] = ZeroBd

(***************************************************************************)
(* Properties of the directory walk                                        *)
(***************************************************************************)
ItemAt(ppi, i) == IF i <= Len(dir_pages[ppi]) THEN dir_pages[ppi][i] ELSE ZeroEntry

\* position of the first record of the page that is not valid
FirstInvalid(ppi) ==
    CHOOSE k \in 1..(Len(dir_pages[ppi]) + 1) :
        /\ ~SDirItemRec_valid(ItemAt(ppi, k))
        /\ \A i \in 1..(k - 1) : SDirItemRec_valid(ItemAt(ppi, i))

\* a directory record that is sound but for its children_loc
HasInvalidChildrenLoc(item) ==
    /\ item.type = FT_SUBFOLDER /\ item.valid_name /\ item.num > 0
    /\ ~valid(item.loc)

Reported(ppi, i) == [page |-> ppi, at |-> i] \in reported

\* C18: when the walk is over, on every parsed page whose only unsound record is a
\* directory with an invalid children_loc, every valid record after that directory
\* that vLoadFile accepts has been reported
C18_SiblingsAfterInvalidDirReported ==
    fe_pc = "done" =>
        \A ppi \in BankPages : \A i \in 1..Len(dir_pages[ppi]) :
            ( /\ parsed[ppi] > 0
              /\ HasInvalidChildrenLoc(dir_pages[ppi][i])
              /\ \A j \in 1..Len(dir_pages[ppi]) :
                    j # i => SDirItemRec_valid(dir_pages[ppi][j]) )
            => \A j \in (i + 1)..Len(dir_pages[ppi]) :
                    vLoadFile(dir_pages[ppi][j]) => Reported(ppi, j)

\* C19, as stated: when the walk is over, on every parsed page with a corrupt record
\* at position k, every record before k has been reported and none after k, and
\* every page of the root directory has been parsed
C19_AllBeforeCorruptReturned ==
    fe_pc = "done" =>
        /\ \A ppi \in BankPages :
             parsed[ppi] > 0 /\ FirstInvalid(ppi) <= Len(dir_pages[ppi]) =>
                /\ \A i \in 1..(FirstInvalid(ppi) - 1) : Reported(ppi, i)
                /\ \A i \in FirstInvalid(ppi)..Len(dir_pages[ppi]) : ~Reported(ppi, i)
        /\ \A n \in 1..Len(dir_stacks[RootDir]) : parsed[dir_stacks[RootDir][n]] > 0

\* C19, for the record types vLoadFile accepts: when the walk is over, on every parsed page with a corrupt record
\* at position k, every record before k of a type vLoadFile accepts (FT_SUBFOLDER,
\* FT_INT_FIB, FT_INCREMENT) has been reported, no record at or after k has, and
\* every page of the root directory has been parsed
C19_LoadableBeforeCorruptReturned ==
    fe_pc = "done" =>
        /\ \A ppi \in BankPages :
             parsed[ppi] > 0 /\ FirstInvalid(ppi) <= Len(dir_pages[ppi]) =>
                /\ \A i \in 1..(FirstInvalid(ppi) - 1) :
                      vLoadFile(dir_pages[ppi][i]) => Reported(ppi, i)
                /\ \A i \in FirstInvalid(ppi)..Len(dir_pages[ppi]) : ~Reported(ppi, i)
        /\ \A n \in 1..Len(dir_stacks[RootDir]) : parsed[dir_stacks[RootDir][n]] > 0

\* the walk is over; the first page of the root directory had a corrupt record
\* between two file records, the first was reported, and the second page of the
\* directory was parsed and its record reported
C19_Witness ==
    /\ fe_pc = "done"
    /\ dir_pages[PPI(0, 1)] = <<FileEntry, CorruptEntry, FileEntry>>
    /\ dir_stacks[RootDir] = <<PPI(0, 1), PPI(0, 2)>>
    /\ Reported(PPI(0, 1), 1)
    /\ parsed[PPI(0, 2)] > 0 /\ Reported(PPI(0, 2), 1)

\* a directory record of the page whose page stack holds the page itself: the
\* directory is its own descendant
OwnDescendant(ppi) ==
    \E i \in 1..Len(dir_pages[ppi]) :
        /\ is_dir(dir_pages[ppi][i]) /\ SDirItemRec_valid(dir_pages[ppi][i])
        /\ i < FirstInvalid(ppi)
        /\ \E n \in 1..Len(DirPageStack(dir_pages[ppi][i].loc)) :
              DirPageStack(dir_pages[ppi][i].loc)[n] = ppi

\* C21: for_each_file terminates on every metadata image, those whose children_loc
\* links form a cycle included: the walk eventually reaches its end
C21_ForEachFileTerminates == <>(fe_pc = "done")

\* the recursion of the walk stays below the cap of the model
C21_DepthBelowCap == Len(frames) < MaxDepth

\* the walk is over on an image where a directory of the first page is its own
\* descendant, and that directory was reported
C21_Witness ==
    /\ fe_pc = "done"
    /\ OwnDescendant(PPI(0, 1))
    /\ Reported(PPI(0, 1), 1) /\ is_dir(dir_pages[PPI(0, 1)][1])

\* C20: no page is passed to process_dir_page more than once during one
\* for_each_file
C20_NoPageParsedTwice == \A ppi \in BankPages : parsed[ppi] <= 1

(***************************************************************************)
(* Properties of DblBufScanner                                             *)
(***************************************************************************)
IsPrefix(s, t) == Len(s) <= Len(t) /\ \A i \in 1..Len(s) : s[i] = t[i]
Ascending(s) == \A i \in 1..Len(s) : \A j \in 1..Len(s) : i < j => s[i] < s[j]

\* C3: the scanner thread processes buffer i only while m_buf_ready[i] is true, the
\* reader thread writes into buffer i only while m_buf_ready[i] is false, and the two
\* threads are never filling and scanning the same buffer at the same time.
C3_BufferHandoffExclusive ==
    /\ (sc_pc = "process" => m_buf_ready[sc_idx])
    /\ (rd_pc = "read" => ~m_buf_ready[rd_idx])
    /\ ~(sc_pc = "process" /\ rd_pc = "read" /\ sc_idx = rd_idx)

\* the scanner is processing one buffer while the other one is filled and waiting
C3_Witness ==
    /\ sc_pc = "process" /\ m_buf_ready[0] /\ m_buf_ready[1]
    /\ rd_pc = "blocked" /\ Len(filled) >= 3

\* C4: once the reader thread has set the done flag, the scanner thread leaves its
\* loop and scan() returns from join(), for every container length and interleaving.
C4_ScanCompletes == m_done ~> (main_pc = "returned")

\* C5: the offsets handed to process_buf are always a prefix of the offsets the
\* reader published, in ascending order, and when scan() returns they are exactly
\* the published ones, each once.
C5_HandoffExact ==
    /\ IsPrefix(processed, filled)
    /\ Ascending(processed)
    /\ (sc_pc = "finished" => processed = filled)
    /\ (main_pc = "returned" => processed = filled)

\* scan() has returned after at least three buffers went through both threads
C5_Witness == main_pc = "returned" /\ Len(processed) >= 3 /\ processed = filled

=============================================================================
